---- MODULE Spec2Model ----
(***************************************************************************)
(* A model of the wallet accounting, note selection and send path of       *)
(* zingolib (lib/src/wallet.rs).                                           *)
(*                                                                         *)
(* The wallet's transaction map is a sequence of notes (the order of the   *)
(* sequence is the order in which the map and the per-record note vectors  *)
(* are iterated).  A note of any pool is one record; the transparent pool  *)
(* holds Utxos, the sapling and orchard pools hold shielded notes.         *)
(***************************************************************************)
EXTENDS Integers, Sequences, FiniteSets, TLC

(***************************************************************************)
(* Bounds of the model.                                                    *)
(***************************************************************************)
NumNotes == 3
MaxTarget == 3

VARIABLES
    notes,          \* TransactionMetadataSet.current, flattened to its notes
    anchor_offset,  \* ZingoConfig.anchor_offset, the confirmation tiers
    blocks,         \* LightWallet.blocks: the retained heights, highest first
    call,           \* the last query made of the wallet, with its result
    keys,           \* Keys: the encrypted and unlocked flags
    verified_tree,  \* LightWallet.verified_tree: TRUE when Some
    send_progress,  \* LightWallet.send_progress
    txs,            \* txids of the records added by a send's own scan_full_tx
    pc,             \* where each task stands in send_to_address
    send,           \* the locals of each task's send
    sends,          \* number of sends started
    env,            \* what chain sync and clear_all have done so far
    locks,          \* per wallet field: the guards held on its RwLock and its wait queue
    lt,             \* per task: the operation it runs and how far it has got in it
    birthday,       \* LightWallet.birthday
    zkeys,          \* Keys.zkeys: the sapling keys of the wallet
    tkeys,          \* Keys.tkeys: the transparent keys of the wallet
    imports,        \* per task: the key import it runs
    writer,         \* the fields LightWallet::write has emitted to its writer
    persist,        \* the results of write and of read
    loaded,         \* the wallet LightWallet::read has constructed, if any
    record,         \* one TransactionRecord
    chan            \* per send: the progress channel of its build and its consumer

walletVars == <<notes, anchor_offset, blocks, keys, verified_tree>>
sendVars == <<send_progress, txs, pc, send, sends, env>>
lockVars == <<locks, lt>>
keyVars == <<birthday, zkeys, tkeys, imports>>
persistVars == <<writer, persist, loaded>>
vars == <<notes, anchor_offset, blocks, call, keys, verified_tree, send_progress, txs, pc, send, sends, env, locks, lt, birthday, zkeys, tkeys, imports, writer, persist, loaded, record, chan>>

(***************************************************************************)
(* Option<T>: None is the empty tuple, Some(x) is the tuple x.             *)
(***************************************************************************)
None == <<>>

Transparent == "transparent"
Sapling == "sapling"
Orchard == "orchard"
Pools == {Transparent, Sapling, Orchard}

\* The pool of the i-th note of the model's wallets.
PoolOf(i) == <<Transparent, Sapling, Orchard, Sapling, Orchard, Transparent>>[((i - 1) % 6) + 1]

NoteIds == 1..NumNotes

(***************************************************************************)
(* Sequence helpers.                                                       *)
(***************************************************************************)
RECURSIVE SumValues(_, _)
\* The fold of `prev + value` over a sequence of note ids.
SumValues(ns, ids) ==
    IF ids = <<>> THEN 0 ELSE ns[Head(ids)].value + SumValues(ns, Tail(ids))

RECURSIVE FilterIds(_, _)
\* The elements of a sequence that belong to keep, in their order.
FilterIds(ids, keep) ==
    IF ids = <<>> THEN <<>>
    ELSE IF Head(ids) \in keep THEN <<Head(ids)>> \o FilterIds(Tail(ids), keep)
         ELSE FilterIds(Tail(ids), keep)

\* All ids of a wallet in iteration order.
AllIds(ns) == [i \in 1..Len(ns) |-> i]

Range(s) == {s[i] : i \in 1..Len(s)}

(***************************************************************************)
(* Spend status, read from the two option fields of a note.                *)
(***************************************************************************)
IsUnspent(n) == n.spent = None /\ n.unconfirmed_spent = None
IsPendingSpent(n) == n.spent = None /\ n.unconfirmed_spent # None
IsConfirmedSpent(n) == n.spent # None

(***************************************************************************)
(* LightWallet::get_utxos: every transparent output with spent = None;     *)
(* outputs with an unconfirmed spend are included.                         *)
(***************************************************************************)
get_utxos(ns) ==
    FilterIds(AllIds(ns),
              {i \in 1..Len(ns) : ns[i].present /\ ns[i].pool = Transparent
                                  /\ ns[i].spent = None})

(***************************************************************************)
(* SpendableNote::from (wallet/traits.rs): a note becomes a spendable note *)
(* at an anchor offset when it is not spent, not pending, its spending key *)
(* is held and a witness is retained anchor_offset back from the latest.   *)
(***************************************************************************)
SpendableNoteFrom(n, offset) ==
    /\ n.spent = None
    /\ n.unconfirmed_spent = None
    /\ n.have_sk
    /\ n.witnesses >= offset + 1

(***************************************************************************)
(* sort_by_key on the note value: a stable sort.                           *)
(***************************************************************************)
\* Mutant: the most valuable note comes first.
InsertByValue_descending(ns, sorted, x) ==
    LET p == Cardinality({j \in 1..Len(sorted) : ns[sorted[j]].value >= ns[x].value})
    IN  SubSeq(sorted, 1, p) \o <<x>> \o SubSeq(sorted, p + 1, Len(sorted))

InsertByValue(ns, sorted, x) ==
    LET p == Cardinality({j \in 1..Len(sorted) : ns[sorted[j]].value <= ns[x].value})
    IN  SubSeq(sorted, 1, p) \o <<x>> \o SubSeq(sorted, p + 1, Len(sorted))

RECURSIVE SortByValue(_, _)
SortByValue(ns, ids) ==
    IF ids = <<>> THEN <<>>
    ELSE InsertByValue(ns, SortByValue(ns, SubSeq(ids, 1, Len(ids) - 1)), ids[Len(ids)])

(***************************************************************************)
(* The closure of get_all_domain_specific_notes for one anchor offset:     *)
(* the notes of the pool with value > 0, not spent and not pending, that   *)
(* SpendableNote::from accepts, sorted by value.                           *)
(***************************************************************************)
\* Mutant: notes of no value are candidates too.
candidate_notes_any_value(ns, pool, offset) ==
    SortByValue(ns,
        FilterIds(AllIds(ns),
                  {i \in 1..Len(ns) :
                      /\ ns[i].present
                      /\ ns[i].pool = pool
                      /\ ~(ns[i].spent # None \/ ns[i].unconfirmed_spent # None)
                      /\ SpendableNoteFrom(ns[i], offset)}))

candidate_notes(ns, pool, offset) ==
    SortByValue(ns,
        FilterIds(AllIds(ns),
                  {i \in 1..Len(ns) :
                      /\ ns[i].present
                      /\ ns[i].pool = pool
                      /\ ns[i].value > 0
                      /\ ~(ns[i].spent # None \/ ns[i].unconfirmed_spent # None)
                      /\ SpendableNoteFrom(ns[i], offset)}))

\* A spendable note: the id of the wallet note and the offset of its witness.
Spendable(ids, offset) == [j \in 1..Len(ids) |-> [id |-> ids[j], anchor_offset |-> offset]]

SpendableIds(sp) == [j \in 1..Len(sp) |-> sp[j].id]

(***************************************************************************)
(* LightWallet::get_all_domain_specific_notes: one candidate list per      *)
(* configured anchor offset, in the configured order.                      *)
(***************************************************************************)
\* Mutant: the candidates are read from the other shielded pool.
get_all_domain_specific_notes_other_pool(ns, ao, pool) ==
    [t \in 1..Len(ao) |->
        Spendable(candidate_notes(ns, IF pool = Sapling THEN Orchard ELSE Sapling, ao[t]), ao[t])]

get_all_domain_specific_notes(ns, ao, pool) ==
    [t \in 1..Len(ao) |-> Spendable(candidate_notes(ns, pool, ao[t]), ao[t])]

(***************************************************************************)
(* The scan of add_notes_to_total: take candidates while the running total *)
(* is below the target.                                                    *)
(***************************************************************************)
RECURSIVE ScanPrefix(_, _, _, _)
ScanPrefix(ns, cand, target, running_total) ==
    IF cand = <<>> \/ running_total >= target THEN <<>>
    ELSE <<Head(cand)>> \o
         ScanPrefix(ns, Tail(cand), target, running_total + ns[Head(cand).id].value)

(***************************************************************************)
(* LightWallet::add_notes_to_total: walk the candidate sets; stop at the   *)
(* first whose prefix reaches the target; when none does, the notes and    *)
(* the value of the last set are returned.                                 *)
(***************************************************************************)
RECURSIVE AddNotesLoop(_, _, _, _, _)
AddNotesLoop(ns, candidates, target, notes_sel, value_selected) ==
    IF candidates = <<>> THEN [notes |-> notes_sel, value |-> value_selected]
    ELSE LET picked == ScanPrefix(ns, Head(candidates), target, 0)
             total == SumValues(ns, SpendableIds(picked))
         IN  IF total >= target THEN [notes |-> picked, value |-> total]
             ELSE AddNotesLoop(ns, Tail(candidates), target, picked, total)

\* Mutant: a walk that comes back with nothing when no tier reaches the target.
add_notes_to_total_nothing_on_shortfall(ns, candidates, target_amount) ==
    LET r == AddNotesLoop(ns, candidates, target_amount, <<>>, 0)
    IN  IF r.value >= target_amount THEN r ELSE [notes |-> <<>>, value |-> 0]

add_notes_to_total(ns, candidates, target_amount) ==
    AddNotesLoop(ns, candidates, target_amount, <<>>, 0)

(***************************************************************************)
(* The transparent outputs select_notes_and_utxos picks: all of them that  *)
(* are neither spent nor pending, when a flag allows transparent value.    *)
(***************************************************************************)
select_utxos(ns, transparent_only, shield_transparent) ==
    IF transparent_only \/ shield_transparent
    THEN FilterIds(get_utxos(ns),
                   {i \in 1..Len(ns) : ns[i].unconfirmed_spent = None /\ ns[i].spent = None})
    ELSE <<>>

Selection(o, s, u, v) == [orchard_notes |-> o, sapling_notes |-> s, utxos |-> u, value |-> v]

\* Mutant: the shortfall return hands back what was gathered.
partial_handed(o, s, u, v) == Selection(o, s, u, v)

\* The last return of select_notes_and_utxos: whatever was gathered, the caller
\* gets nothing.
empty_handed(o, s, u, v) == Selection(<<>>, <<>>, <<>>, 0)

\* Mutant: the early return forgets the transparent-only flag.
transparent_suffices_by_value(transparent_only, transparent_value_selected, target_amount) ==
    transparent_value_selected >= target_amount

\* The early return of select_notes_and_utxos.
transparent_suffices(transparent_only, transparent_value_selected, target_amount) ==
    transparent_only \/ transparent_value_selected >= target_amount

(***************************************************************************)
(* LightWallet::select_notes_and_utxos.                                    *)
(***************************************************************************)
\* Mutant: the return after the orchard walk reports the value without the
\* sapling notes it hands back.
select_notes_and_utxos_forgetting_sapling(ns, ao, target_amount, transparent_only, shield_transparent, prefer_orchard_over_sapling) ==
    LET utxos == select_utxos(ns, transparent_only, shield_transparent)
        tv == SumValues(ns, utxos)
        sap1 == IF prefer_orchard_over_sapling
                THEN add_notes_to_total(ns, get_all_domain_specific_notes(ns, ao, Sapling),
                                        target_amount - tv)
                ELSE [notes |-> <<>>, value |-> 0]
        orch == add_notes_to_total(ns, get_all_domain_specific_notes(ns, ao, Orchard),
                                   target_amount - tv - sap1.value)
        sap2 == add_notes_to_total(ns, get_all_domain_specific_notes(ns, ao, Sapling),
                                   target_amount - tv)
    IN  IF transparent_suffices(transparent_only, tv, target_amount)
        THEN Selection(<<>>, <<>>, utxos, tv)
        ELSE IF prefer_orchard_over_sapling /\ tv + sap1.value >= target_amount
        THEN Selection(<<>>, sap1.notes, utxos, tv + sap1.value)
        ELSE IF tv + sap1.value + orch.value >= target_amount
        THEN Selection(orch.notes, sap1.notes, utxos, tv + orch.value)
        ELSE IF ~prefer_orchard_over_sapling /\ tv + sap2.value + orch.value >= target_amount
        THEN Selection(orch.notes, sap2.notes, utxos, tv + sap2.value + orch.value)
        ELSE empty_handed(orch.notes, IF prefer_orchard_over_sapling THEN sap1.notes ELSE sap2.notes,
                          utxos, tv)

select_notes_and_utxos(ns, ao, target_amount, transparent_only, shield_transparent, prefer_orchard_over_sapling) ==
    LET utxos == select_utxos(ns, transparent_only, shield_transparent)
        tv == SumValues(ns, utxos)
        sap1 == IF prefer_orchard_over_sapling
                THEN add_notes_to_total(ns, get_all_domain_specific_notes(ns, ao, Sapling),
                                        target_amount - tv)
                ELSE [notes |-> <<>>, value |-> 0]
        orch == add_notes_to_total(ns, get_all_domain_specific_notes(ns, ao, Orchard),
                                   target_amount - tv - sap1.value)
        sap2 == add_notes_to_total(ns, get_all_domain_specific_notes(ns, ao, Sapling),
                                   target_amount - tv)
    IN  IF transparent_suffices(transparent_only, tv, target_amount)
        THEN Selection(<<>>, <<>>, utxos, tv)
        ELSE IF prefer_orchard_over_sapling /\ tv + sap1.value >= target_amount
        THEN Selection(<<>>, sap1.notes, utxos, tv + sap1.value)
        ELSE IF tv + sap1.value + orch.value >= target_amount
        THEN Selection(orch.notes, sap1.notes, utxos, tv + sap1.value + orch.value)
        ELSE IF ~prefer_orchard_over_sapling /\ tv + sap2.value + orch.value >= target_amount
        THEN Selection(orch.notes, sap2.notes, utxos, tv + sap2.value + orch.value)
        ELSE empty_handed(orch.notes, IF prefer_orchard_over_sapling THEN sap1.notes ELSE sap2.notes,
                          utxos, tv)

(***************************************************************************)
(* Anchor height (u32 arithmetic; saturating_sub stops at 0).              *)
(***************************************************************************)
Max(a, b) == IF a >= b THEN a ELSE b
Min(a, b) == IF a <= b THEN a ELSE b
saturating_sub(a, b) == IF a >= b THEN a - b ELSE 0

\* LightWallet::get_target_height_and_anchor_offset: None without blocks, else
\* the target height and its distance to the anchor, which is the last
\* configured offset back from the target unless that precedes the oldest block.
get_target_height_and_anchor_offset(bl, ao) ==
    IF bl = <<>> THEN None
    ELSE LET min_height == bl[Len(bl)]
             max_height == bl[1]
             target_height == max_height + 1
             anchor_height == Max(saturating_sub(target_height, ao[Len(ao)]), min_height)
         IN  <<target_height, target_height - anchor_height>>

\* LightWallet::get_anchor_height.
get_anchor_height(bl, ao) ==
    LET r == get_target_height_and_anchor_offset(bl, ao)
    IN  IF r = None THEN 0 ELSE r[1] - r[2] - 1

(***************************************************************************)
(* Balances.                                                               *)
(***************************************************************************)
\* Mutant: a note with an unconfirmed spend still counts.
shielded_balance_counting_pending(ns, pool, passing) ==
    SumValues(ns, FilterIds(AllIds(ns),
        {i \in 1..Len(ns) : /\ ns[i].present /\ ns[i].pool = pool /\ i \in passing
                            /\ ns[i].spent = None}))

\* LightWallet::shielded_balance: over the notes of the pool that pass every
\* filter, the value of those with neither a spend nor an unconfirmed spend.
shielded_balance(ns, pool, passing) ==
    SumValues(ns, FilterIds(AllIds(ns),
        {i \in 1..Len(ns) : /\ ns[i].present /\ ns[i].pool = pool /\ i \in passing
                            /\ ns[i].spent = None /\ ns[i].unconfirmed_spent = None}))

\* maybe_verified_sapling_balance, maybe_verified_orchard_balance: no filter.
maybe_verified_balance(ns, pool) == shielded_balance(ns, pool, 1..Len(ns))

\* unverified_sapling_balance, unverified_orchard_balance.
unverified_balance(ns, bl, ao, pool) ==
    shielded_balance(ns, pool,
        {i \in 1..Len(ns) : ns[i].have_sk /\ ns[i].block > get_anchor_height(bl, ao)})

\* Mutant: a note received at the anchor height is not yet verified.
verified_balance_below_anchor(ns, bl, ao, pool) ==
    shielded_balance(ns, pool, {i \in 1..Len(ns) : ns[i].block < get_anchor_height(bl, ao)})

\* verified_balance.
verified_balance(ns, bl, ao, pool) ==
    shielded_balance(ns, pool, {i \in 1..Len(ns) : ns[i].block <= get_anchor_height(bl, ao)})

\* Mutant: the height filter is turned around.
spendable_balance_above_anchor(ns, bl, ao, pool) ==
    shielded_balance(ns, pool,
        {i \in 1..Len(ns) : /\ ns[i].block > get_anchor_height(bl, ao)
                            /\ ns[i].have_sk /\ ns[i].witnesses > 0})

\* spendable_sapling_balance, spendable_orchard_balance.
spendable_balance(ns, bl, ao, pool) ==
    shielded_balance(ns, pool,
        {i \in 1..Len(ns) : /\ ns[i].block <= get_anchor_height(bl, ao)
                            /\ ns[i].have_sk /\ ns[i].witnesses > 0})

\* LightWallet::tbalance without an address filter.
tbalance(ns) == SumValues(ns, get_utxos(ns))

(***************************************************************************)
(* The marking loops of send_to_address_internal: every selected note and  *)
(* output gets unconfirmed_spent = Some((txid, target_height)).            *)
(***************************************************************************)
mark_unconfirmed_spent(ns, ids, txid, target_height) ==
    [i \in 1..Len(ns) |->
        IF i \in ids THEN [ns[i] EXCEPT !.unconfirmed_spent = <<txid, target_height>>]
        ELSE ns[i]]

(***************************************************************************)
(* The send tasks and the rest of the wallet, as after construction.       *)
(***************************************************************************)
Tasks == {1, 2}

\* SendProgress::new.
SendProgressNew(id) ==
    [id |-> id, is_send_in_progress |-> FALSE, progress |-> 0, total |-> 0,
     last_error |-> None, last_transaction_id |-> None]

NoSelection == [orchard_notes |-> <<>>, sapling_notes |-> <<>>, utxos |-> <<>>, value |-> 0]
NoLocals ==
    [target_height |-> 0, selected |-> NoSelection, txid |-> 0, err |-> "none",
     id |-> 0, confirmations |-> 0, invoked |-> {}, anchor |-> <<>>]
NoEnv == "untouched"
\* TransactionRecord::new: no notes, nothing spent, nothing sent.
NoRecord ==
    [txid |-> 0, transparent_outputs |-> <<>>, sapling_notes |-> <<>>, orchard_notes |-> <<>>,
     total_transparent_value_spent |-> 0, total_sapling_value_spent |-> 0,
     total_orchard_value_spent |-> 0, outgoing_tx_data |-> <<>>,
     status |-> [confirmed |-> TRUE, height |-> 0],
     spent_sapling_nullifiers |-> <<>>, spent_orchard_nullifiers |-> <<>>]
\* No channel yet: nothing queued, no transmitter, no consumer.
NoChannel == [queue |-> <<>>, open |-> FALSE, consumer |-> "none", id |-> 0, sent |-> 0]
NoChannels == [t \in Tasks |-> NoChannel]
NoPersist == [write |-> "none", read |-> "none", version |-> 0, chain |-> "none"]
NoImport == [pc |-> "idle", kind |-> "none", key |-> 0, birthday |-> 0, loaded |-> 0, result |-> "none", address |-> <<>>]

\* The wallet fields behind an RwLock of their own.
Locks == {"keys", "records", "blocks", "send_progress", "verified_tree", "wallet_options", "price"}

\* An RwLock nobody holds or waits for. Task ids are positive: writer 0 is none.
FreeLock == [writer |-> 0, readers |-> [t \in Tasks |-> 0], queue |-> <<>>]
FreeLocks == [l \in Locks |-> FreeLock]
NoOperation == [prog |-> "none", at |-> 1, waiting |-> FALSE]

PlainKeys == [encrypted |-> FALSE, unlocked |-> TRUE]
LockedKeys == [encrypted |-> TRUE, unlocked |-> FALSE]
UnlockedKeys == [encrypted |-> TRUE, unlocked |-> TRUE]

IdleInit ==
    /\ keys = PlainKeys
    /\ verified_tree = TRUE
    /\ send_progress = SendProgressNew(0)
    /\ txs = {}
    /\ pc = [t \in Tasks |-> "idle"]
    /\ send = [t \in Tasks |-> NoLocals]
    /\ sends = 0
    /\ env = NoEnv
    /\ locks = FreeLocks
    /\ lt = [t \in Tasks |-> NoOperation]
    /\ birthday = 0
    /\ zkeys = <<>>
    /\ tkeys = <<>>
    /\ imports = [t \in Tasks |-> NoImport]
    /\ writer = <<>>
    /\ persist = NoPersist
    /\ loaded = None
    /\ record = NoRecord
    /\ chan = NoChannels

(***************************************************************************)
(* Wallet states the specifications start from.                            *)
(***************************************************************************)
\* Note values and witness-history lengths of the wallets the specifications
\* start from: two values, to order candidates, and every length the
\* configured tiers tell apart.
NoteValues == {1, 2}
WitnessCounts == {0, 1, 2}
FullWitnesses == CHOOSE w \in WitnessCounts : \A x \in WitnessCounts : x <= w

\* The two option fields of a note that is unspent, pending or spent.
UnspentFields == <<None, None>>
PendingFields == <<None, <<90, 5>>>>
SpentFields == <<<<91, 4>>, None>>

Note(pool, value, have_sk, witnesses, block, fields) ==
    [pool |-> pool, value |-> value, have_sk |-> have_sk, witnesses |-> witnesses,
     block |-> block, spent |-> fields[1], unconfirmed_spent |-> fields[2],
     present |-> TRUE]

\* Transparent outputs carry no witness. A shielded note that is pending, spent
\* or without a spending key is taken with everything else in its favour, so
\* that only that one fact keeps it from being a candidate.
UtxoStates ==
    {Note(Transparent, v, TRUE, 0, 1, f) :
        v \in NoteValues, f \in {UnspentFields, PendingFields, SpentFields}}

ShieldedStates(pool) ==
    {Note(pool, v, TRUE, w, 1, UnspentFields) : v \in NoteValues, w \in WitnessCounts}
    \cup {Note(pool, v, FALSE, FullWitnesses, 1, UnspentFields) : v \in NoteValues}
    \cup {Note(pool, v, TRUE, FullWitnesses, 1, f) :
            v \in NoteValues, f \in {PendingFields, SpentFields}}

NoteStates(i) == IF PoolOf(i) = Transparent THEN UtxoStates ELSE ShieldedStates(PoolOf(i))

WalletStates == {w \in [NoteIds -> UNION {NoteStates(i) : i \in NoteIds}] :
                    \A i \in NoteIds : w[i] \in NoteStates(i)}

\* Configured tiers, deepest first as in every configuration of the repository.
AnchorOffsets == {<<1, 0>>, <<1, 1>>}

NoCall == [op |-> "none"]

(***************************************************************************)
(* SpecSel: select_notes_and_utxos applied to every wallet, target and     *)
(* flag combination of the bounds.                                         *)
(***************************************************************************)
InitSel ==
    /\ notes \in WalletStates
    /\ anchor_offset \in AnchorOffsets
    /\ blocks = <<3, 2, 1>>
    /\ call = NoCall
    /\ IdleInit

Select(target, transparent_only, shield_transparent, prefer) ==
    /\ call.op = "none"
    /\ call' = [op |-> "select", target |-> target, transparent_only |-> transparent_only,
                shield_transparent |-> shield_transparent, prefer |-> prefer,
                result |-> select_notes_and_utxos(notes, anchor_offset, target,
                                                  transparent_only, shield_transparent, prefer)]
    /\ UNCHANGED <<walletVars, sendVars, lockVars, keyVars, persistVars, record, chan>>

NextSel ==
    \E target \in 0..MaxTarget, transparent_only \in BOOLEAN,
       shield_transparent \in BOOLEAN, prefer \in BOOLEAN :
        Select(target, transparent_only, shield_transparent, prefer)

SpecSel == InitSel /\ [][NextSel]_vars

(***************************************************************************)
(* Properties of select_notes_and_utxos (SpecSel).                         *)
(***************************************************************************)
Selected == call.op = "select"

\* The sum of the values of a set of notes of a wallet.
ValueOf(ns, ids) == SumValues(ns, FilterIds(AllIds(ns), ids))

\* The loosest configured tier: the least anchor offset.
LeastOffset(ao) == CHOOSE k \in Range(ao) : \A j \in Range(ao) : k <= j

\* The inputs a selection may draw on under its flags: the permitted unspent
\* transparent outputs, and the unspent shielded notes with a held key and a
\* witness retained at a configured tier.
EligibleUtxos(ns, transparent_only, shield_transparent) ==
    {i \in 1..Len(ns) : /\ transparent_only \/ shield_transparent
                        /\ ns[i].present /\ ns[i].pool = Transparent
                        /\ IsUnspent(ns[i])}

EligibleShielded(ns, ao, transparent_only) ==
    {i \in 1..Len(ns) : /\ ~transparent_only
                        /\ ns[i].present /\ ns[i].pool \in {Sapling, Orchard}
                        /\ IsUnspent(ns[i]) /\ ns[i].have_sk
                        /\ ns[i].witnesses > LeastOffset(ao)}

EligibleValue(ns, ao, transparent_only, shield_transparent) ==
    ValueOf(ns, EligibleUtxos(ns, transparent_only, shield_transparent)
                \cup EligibleShielded(ns, ao, transparent_only))

CallEligibleValue ==
    EligibleValue(notes, anchor_offset, call.transparent_only, call.shield_transparent)

IsEmptySelection(r) ==
    r.orchard_notes = <<>> /\ r.sapling_notes = <<>> /\ r.utxos = <<>> /\ r.value = 0

\* C1: for every target and flag combination the selected value reaches the
\* target exactly when the value eligible under the flags and the configured
\* tiers reaches it.
C1_SelectedIffEligible ==
    Selected => ((call.result.value >= call.target) <=> (CallEligibleValue >= call.target))

\* A selection that reaches a positive target only by drawing on both shielded pools.
C1_Witness ==
    /\ Selected /\ call.target > 0
    /\ call.result.value >= call.target
    /\ call.result.sapling_notes # <<>>
    /\ call.result.orchard_notes # <<>>

\* C2 as stated: whenever the target is not reached, under every flag
\* combination, all three sets are empty and the selected value is 0.
C2_EmptyOnEveryShortfall ==
    (Selected /\ call.result.value < call.target) => IsEmptySelection(call.result)

\* C2 as amended: a shortfall without the transparent-only flag returns three
\* empty sets and 0; with the flag the unspent, non-pending transparent outputs
\* and their value are returned whether or not they reach the target.
C2_EmptyOnShortfallUnlessTransparentOnly ==
    Selected =>
        /\ (~call.transparent_only /\ call.result.value < call.target)
              => IsEmptySelection(call.result)
        /\ call.transparent_only =>
              /\ Range(call.result.utxos) = EligibleUtxos(notes, TRUE, TRUE)
              /\ call.result.value = ValueOf(notes, EligibleUtxos(notes, TRUE, TRUE))

\* A shortfall without the flag, in a wallet that holds eligible value.
C2_Witness ==
    /\ Selected /\ ~call.transparent_only
    /\ CallEligibleValue > 0
    /\ CallEligibleValue < call.target
    /\ IsEmptySelection(call.result)

\* C7: with transparent-only set no sapling note and no orchard note is
\* returned, whether or not the transparent outputs cover the target.
C7_TransparentOnlyReturnsNoShielded ==
    (Selected /\ call.transparent_only) =>
        (call.result.sapling_notes = <<>> /\ call.result.orchard_notes = <<>>)

\* Transparent-only with outputs short of the target while the shielded notes
\* of the wallet would have covered it.
C7_Witness ==
    /\ Selected /\ call.transparent_only
    /\ call.result.value < call.target
    /\ EligibleValue(notes, anchor_offset, FALSE, TRUE) >= call.target
    /\ call.result.sapling_notes = <<>> /\ call.result.orchard_notes = <<>>

(***************************************************************************)
(* SpecBal: the balance queries over wallets whose notes differ in height, *)
(* key, witnesses and status, and the marking of one unspent note.         *)
(***************************************************************************)
NoteHeights == {2, 3}
BlockWindows == {<<>>, <<3>>, <<3, 2, 1>>}

\* The i-th note is worth i, so that a balance tells which notes it counts.
BalUtxoStates(v) ==
    {Note(Transparent, v, TRUE, 0, b, f) :
        b \in {2}, f \in {UnspentFields, PendingFields, SpentFields}}

BalShieldedStates(pool, v) ==
    {Note(pool, v, TRUE, w, b, UnspentFields) : w \in WitnessCounts, b \in NoteHeights}
    \cup {Note(pool, v, FALSE, FullWitnesses, b, UnspentFields) : b \in NoteHeights}
    \cup {Note(pool, v, TRUE, FullWitnesses, b, f) :
            b \in NoteHeights, f \in {PendingFields, SpentFields}}

BalNoteStates(i) ==
    IF PoolOf(i) = Transparent THEN BalUtxoStates(i) ELSE BalShieldedStates(PoolOf(i), i)

BalWalletStates == {w \in [NoteIds -> UNION {BalNoteStates(i) : i \in NoteIds}] :
                       \A i \in NoteIds : w[i] \in BalNoteStates(i)}

InitBal ==
    /\ notes \in BalWalletStates
    /\ anchor_offset \in AnchorOffsets
    /\ blocks \in BlockWindows
    /\ call = NoCall
    /\ IdleInit

\* One pass of a marking loop: an unspent note, as selection returns it, gets
\* its unconfirmed spend. The wallet before is kept for comparison.
MarkPendingSpent(i) ==
    /\ call.op = "none"
    /\ blocks # <<>>
    /\ notes[i].present /\ IsUnspent(notes[i])
    /\ notes' = mark_unconfirmed_spent(notes, {i}, 92, blocks[1] + 1)
    /\ call' = [op |-> "mark", id |-> i, before |-> notes]
    /\ UNCHANGED <<anchor_offset, blocks, keys, verified_tree, sendVars, lockVars, keyVars, persistVars, record, chan>>

\* LightWallet::get_anchor_height, asked of the wallet as it stands.
GetAnchorHeight ==
    /\ call.op = "none"
    /\ call' = [op |-> "get_anchor_height", result |-> get_anchor_height(blocks, anchor_offset)]
    /\ UNCHANGED <<walletVars, sendVars, lockVars, keyVars, persistVars, record, chan>>

NextBal ==
    \/ \E i \in NoteIds : MarkPendingSpent(i)
    \/ GetAnchorHeight

SpecBal == InitBal /\ [][NextBal]_vars

(***************************************************************************)
(* Properties of the balances (SpecBal).                                   *)
(***************************************************************************)
Marked == call.op = "mark"

\* The value a pool can spend now, and all the value of a pool.
SpendableOf(ns, pool) ==
    IF pool = Transparent THEN SumValues(ns, select_utxos(ns, TRUE, TRUE))
    ELSE spendable_balance(ns, blocks, anchor_offset, pool)

GrossOf(ns, pool) ==
    IF pool = Transparent THEN tbalance(ns) ELSE maybe_verified_balance(ns, pool)

\* The note counts in the spendable balance of its pool.
IsSpendable(ns, i) ==
    /\ ns[i].present /\ IsUnspent(ns[i])
    /\ ns[i].pool # Transparent =>
          /\ ns[i].block <= get_anchor_height(blocks, anchor_offset)
          /\ ns[i].have_sk /\ ns[i].witnesses > 0

\* C6 as stated: marking a spendable note or output PendingSpent takes its
\* value off the spendable balance of its pool and leaves the gross balance of
\* that pool as it was.
C6_MarkKeepsGross ==
    (Marked /\ IsSpendable(call.before, call.id)) =>
        LET pool == notes[call.id].pool
        IN  /\ SpendableOf(notes, pool) = SpendableOf(call.before, pool) - notes[call.id].value
            /\ GrossOf(notes, pool) = GrossOf(call.before, pool)

\* C6 as amended: marking a spendable note or output PendingSpent takes its
\* value off the spendable balance of its pool; the gross balance of a shielded
\* pool drops by the same value, that of the transparent pool is unchanged.
C6_MarkReducesSpendable ==
    (Marked /\ IsSpendable(call.before, call.id)) =>
        LET pool == notes[call.id].pool
            v == notes[call.id].value
        IN  /\ SpendableOf(notes, pool) = SpendableOf(call.before, pool) - v
            /\ pool = Transparent => GrossOf(notes, pool) = GrossOf(call.before, pool)
            /\ pool # Transparent => GrossOf(notes, pool) = GrossOf(call.before, pool) - v

\* A spendable shielded note has been marked, beside another unspent note of
\* its pool... the pool's gross balance before was at least its value.
C6_Witness ==
    /\ Marked /\ IsSpendable(call.before, call.id)
    /\ notes[call.id].pool = Sapling
    /\ notes[call.id].unconfirmed_spent # None
    /\ SpendableOf(call.before, Sapling) >= notes[call.id].value

\* The depths at which candidates and balances are compared.
AnchorDepths == {0, 1, 2}

\* C8: at a deeper anchor offset the candidates of a pool are among the
\* candidates at a shallower one, and the spendable balance under a deeper last
\* offset is no larger.
C8_DeeperOffsetNeverAdds ==
    \A pool \in {Sapling, Orchard} : \A k1 \in AnchorDepths :
        \A k2 \in {k \in AnchorDepths : k1 < k} :
            /\ Range(candidate_notes(notes, pool, k2)) \subseteq
                   Range(candidate_notes(notes, pool, k1))
            /\ spendable_balance(notes, blocks, <<k2>>, pool)
                   <= spendable_balance(notes, blocks, <<k1>>, pool)

\* A wallet in which going from offset 0 to offset 1 loses a candidate and
\* lowers the spendable balance.
C8_Witness ==
    /\ candidate_notes(notes, Sapling, 1) # candidate_notes(notes, Sapling, 0)
    /\ spendable_balance(notes, blocks, <<1>>, Sapling)
           < spendable_balance(notes, blocks, <<0>>, Sapling)

\* C20: for a non-empty block window with tip H and oldest height L and the
\* last configured offset k, get_anchor_height returns max(H + 1 - k, L), which
\* is never below L.
C20_AnchorHeightIsOffsetFromTargetClamped ==
    (call.op = "get_anchor_height" /\ blocks # <<>>) =>
        LET H == blocks[1]
            L == blocks[Len(blocks)]
            k == anchor_offset[Len(anchor_offset)]
        IN  call.result = Max(H + 1 - k, L) /\ call.result >= L

(***************************************************************************)
(* Spec: send_to_address called once by each of two tasks, one after the   *)
(* other or overlapping, step by step between the points where a wallet    *)
(* lock is taken, beside chain sync and clear_all. The tasks are           *)
(* interchangeable: the second starts once the first has.                  *)
(***************************************************************************)
\* The fee added to the amounts sent, in the units of the note values.
DEFAULT_FEE == 1

\* Amounts a caller asks to send: met by one note, by all notes, by no wallet.
SendAmounts == {1, 4, 7}

\* The destination lists a caller passes: none, one undecodable, one good.
TosKinds == {"empty", "undecodable", "good"}

\* A fresh wallet: unspent notes worth 1, 2, 3, ..., one pool after the other;
\* the key of the first, a transparent output, may be missing.
SendWallet(sk) ==
    [i \in NoteIds |-> Note(PoolOf(i), i, IF i = 1 THEN sk ELSE TRUE,
                            IF PoolOf(i) = Transparent THEN 0 ELSE FullWitnesses,
                            1, UnspentFields)]

\* The wallets a send starts from: a usable one, a locked one, one without a
\* verified tree, one with the key of its output missing.
SendWalletStates ==
    {<<SendWallet(TRUE), PlainKeys, TRUE>>, <<SendWallet(TRUE), LockedKeys, TRUE>>,
     <<SendWallet(TRUE), PlainKeys, FALSE>>, <<SendWallet(FALSE), PlainKeys, TRUE>>}

Init ==
    /\ \E w \in SendWalletStates : notes = w[1] /\ keys = w[2] /\ verified_tree = w[3]
    /\ anchor_offset = <<1, 0>>
    /\ blocks = <<3, 2, 1>>
    /\ call = NoCall
    /\ send_progress = SendProgressNew(0)
    /\ txs = {}
    /\ pc = [t \in Tasks |-> "idle"]
    /\ send = [t \in Tasks |-> NoLocals]
    /\ sends = 0
    /\ env = NoEnv
    /\ locks = FreeLocks
    /\ lt = [t \in Tasks |-> NoOperation]
    /\ birthday = 0
    /\ zkeys = <<>>
    /\ tkeys = <<>>
    /\ imports = [t \in Tasks |-> NoImport]
    /\ writer = <<>>
    /\ persist = NoPersist
    /\ loaded = None
    /\ record = NoRecord
    /\ chan = NoChannels

\* The txid of the transaction a send builds: one per send.
TxidOf(id) == 10 + id

Txids == {TxidOf(id) : id \in 1..Cardinality(Tasks)}

\* Mutant: the target height is the tip itself.
get_target_height_at_tip(bl) == IF bl = <<>> THEN None ELSE <<bl[1]>>

\* LightWallet::get_target_height: one above the first (latest) block.
get_target_height(bl) == IF bl = <<>> THEN None ELSE <<bl[1] + 1>>

\* The notes and outputs of a selection in the order the marking loops visit them.
SelectedSeq(sel) == SpendableIds(sel.sapling_notes) \o SpendableIds(sel.orchard_notes) \o sel.utxos

SelectedIds(sel) == Range(SelectedSeq(sel))

\* The marking loops look every note up and unwrap: the ids visited before the
\* first one whose record is gone.
RECURSIVE FoundPrefix(_, _)
FoundPrefix(ns, ids) ==
    IF ids = <<>> \/ ~ns[Head(ids)].present THEN <<>>
    ELSE <<Head(ids)>> \o FoundPrefix(ns, Tail(ids))

Fail(t, e) ==
    /\ pc' = [pc EXCEPT ![t] = "error"]
    /\ send' = [send EXCEPT ![t].err = e]

Goto(t, l) == pc' = [pc EXCEPT ![t] = l]

\* The task has called a collaborator: it failed, or the send goes on.
FailAfter(t, e, c) ==
    /\ pc' = [pc EXCEPT ![t] = "error"]
    /\ send' = [send EXCEPT ![t].err = e, ![t].invoked = @ \cup {c}]

GotoAfter(t, l, c) ==
    /\ pc' = [pc EXCEPT ![t] = l]
    /\ send' = [send EXCEPT ![t].invoked = @ \cup {c}]

\* Mutant: the progress record is cleared but keeps its id.
reset_send_progress_same_id(p) == SendProgressNew(p.id)

\* LightWallet::reset_send_progress.
reset_send_progress(p) == SendProgressNew(p.id + 1)

\* Mutant: the confirmations named are those of the first tier.
required_confirmations_first_tier(ao) == ao[1] + 1

\* The confirmations the insufficient-funds error names.
required_confirmations(ao) == ao[Len(ao)] + 1

\* send_to_address: reset_send_progress.
SendStart(t) ==
    /\ pc[t] = "idle"
    /\ \A u \in Tasks : u < t => pc[u] # "idle"
    /\ send_progress' = reset_send_progress(send_progress)
    /\ sends' = sends + 1
    /\ send' = [send EXCEPT ![t] = [NoLocals EXCEPT !.txid = TxidOf(sends + 1),
                                                    !.id = send_progress'.id]]
    /\ Goto(t, "reset")
    /\ UNCHANGED <<walletVars, call, lockVars, txs, env, keyVars, persistVars, record, chan>>

\* send_to_address_internal: the unlocked check, the destinations.
SendValidate(t, tos) ==
    /\ pc[t] = "reset"
    /\ IF ~keys.unlocked THEN Fail(t, "locked")
       ELSE IF tos = "empty" THEN Fail(t, "no destination")
       ELSE IF tos = "undecodable" THEN Fail(t, "invalid address")
       ELSE Goto(t, "validated") /\ UNCHANGED send
    /\ UNCHANGED <<walletVars, call, lockVars, send_progress, txs, sends, env, keyVars, persistVars, record, chan>>

\* send_to_address_internal: the target height.
SendTarget(t) ==
    /\ pc[t] = "validated"
    /\ LET h == get_target_height(blocks)
       IN  IF h = None THEN Fail(t, "no blocks")
           ELSE /\ Goto(t, "targeted")
                /\ send' = [send EXCEPT ![t].target_height = h[1]]
    /\ UNCHANGED <<walletVars, call, lockVars, send_progress, txs, sends, env, keyVars, persistVars, record, chan>>

\* send_to_address_internal: selection and the insufficient-funds check. The
\* reads of one selection (outputs, then each pool) are taken as one step.
SendSelect(t, amount, transparent_only, migrate_sapling_to_orchard) ==
    /\ pc[t] = "targeted"
    /\ LET target_amount == amount + DEFAULT_FEE
           sel == select_notes_and_utxos(notes, anchor_offset, target_amount,
                                         transparent_only, TRUE, migrate_sapling_to_orchard)
       IN  IF sel.value < target_amount
           THEN /\ pc' = [pc EXCEPT ![t] = "error"]
                /\ send' = [send EXCEPT ![t].err = "insufficient funds",
                                        ![t].confirmations = required_confirmations(anchor_offset)]
           ELSE /\ Goto(t, "selected")
                /\ send' = [send EXCEPT ![t].selected = sel]
    /\ UNCHANGED <<walletVars, call, lockVars, send_progress, txs, sends, env, keyVars, persistVars, record, chan>>

\* Mutant: the inputs are marked as the builder is given them.
SendPrepare_marking_inputs(t, builder_accepts) ==
    /\ pc[t] = "selected"
    /\ notes' = mark_unconfirmed_spent(notes, SelectedIds(send[t].selected),
                                       send[t].txid, send[t].target_height)
    /\ IF ~builder_accepts THEN Fail(t, "builder")
       ELSE Goto(t, "prepared") /\ UNCHANGED send
    /\ UNCHANGED <<anchor_offset, blocks, keys, verified_tree, call, lockVars, send_progress, txs, sends, env, keyVars, persistVars, record, chan>>

\* Mutant: the anchor is the witness root of any selected shielded note.
orchard_anchor_of_any_shielded_note(sel, tree) ==
    IF sel.orchard_notes # <<>> THEN <<[from |-> "witness", note |-> sel.orchard_notes[1].id]>>
    ELSE IF sel.sapling_notes # <<>>
         THEN <<[from |-> "witness", note |-> sel.sapling_notes[1].id]>>
    ELSE IF tree THEN <<[from |-> "verified_tree", note |-> 0]>>
    ELSE None

\* send_to_address_internal: the orchard anchor is the witness root of the
\* first selected orchard note, else the root of the orchard tree of the
\* verified_tree snapshot, else there is none.
orchard_anchor(sel, tree) ==
    IF sel.orchard_notes # <<>> THEN <<[from |-> "witness", note |-> sel.orchard_notes[1].id]>>
    ELSE IF tree THEN <<[from |-> "verified_tree", note |-> 0]>>
    ELSE None

\* send_to_address_internal: the orchard anchor, the inputs and the outputs
\* given to the builder, which may refuse one.
SendPrepare(t, builder_accepts) ==
    /\ pc[t] = "selected"
    /\ LET sel == send[t].selected
           anchor == orchard_anchor(sel, verified_tree)
       IN  IF anchor = None THEN Fail(t, "no verified tree")
           ELSE IF \E j \in 1..Len(sel.utxos) : ~notes[sel.utxos[j]].have_sk
                THEN /\ pc' = [pc EXCEPT ![t] = "error"]
                     /\ send' = [send EXCEPT ![t].err = "invalid address", ![t].anchor = anchor]
           ELSE IF ~builder_accepts
                THEN /\ pc' = [pc EXCEPT ![t] = "error"]
                     /\ send' = [send EXCEPT ![t].err = "builder", ![t].anchor = anchor]
           ELSE /\ Goto(t, "prepared")
                /\ send' = [send EXCEPT ![t].anchor = anchor]
    /\ UNCHANGED <<walletVars, call, lockVars, send_progress, txs, sends, env, keyVars, persistVars, record, chan>>

\* send_to_address_internal: the progress record is armed before the build.
SendBeginBuild(t) ==
    /\ pc[t] = "prepared"
    /\ send_progress' = [send_progress EXCEPT !.is_send_in_progress = TRUE,
                                              !.progress = 0,
                                              !.total = Len(send[t].selected.sapling_notes) + 1]
    /\ Goto(t, "building")
    /\ UNCHANGED <<walletVars, call, lockVars, txs, send, sends, env, keyVars, persistVars, record, chan>>

\* send_to_address_internal: builder.build and the reset of the in-progress flag.
SendBuild(t, built) ==
    /\ pc[t] = "building"
    /\ send_progress' = [send_progress EXCEPT !.is_send_in_progress = FALSE]
    /\ IF built THEN GotoAfter(t, "built", "build")
       ELSE FailAfter(t, "build", "build")
    /\ UNCHANGED <<walletVars, call, lockVars, txs, sends, env, keyVars, persistVars, record, chan>>

\* Mutant: the notes are marked before the bytes are handed over.
SendBroadcast_after_marking(t, accepted) ==
    /\ pc[t] = "built"
    /\ notes' = mark_unconfirmed_spent(notes, SelectedIds(send[t].selected),
                                       send[t].txid, send[t].target_height)
    /\ IF accepted THEN GotoAfter(t, "broadcast", "broadcast")
       ELSE FailAfter(t, "broadcast", "broadcast")
    /\ UNCHANGED <<anchor_offset, blocks, keys, verified_tree, call, lockVars, send_progress, txs, sends, env, keyVars, persistVars, record, chan>>

\* send_to_address_internal: broadcast_fn(raw_transaction).await?
SendBroadcast(t, accepted) ==
    /\ pc[t] = "built"
    /\ IF accepted THEN GotoAfter(t, "broadcast", "broadcast")
       ELSE FailAfter(t, "broadcast", "broadcast")
    /\ UNCHANGED <<walletVars, call, lockVars, send_progress, txs, sends, env, keyVars, persistVars, record, chan>>

\* send_to_address_internal: the marking loops under the records write lock.
SendMark(t) ==
    /\ pc[t] = "broadcast"
    /\ LET ids == SelectedSeq(send[t].selected)
           found == FoundPrefix(notes, ids)
       IN  /\ notes' = mark_unconfirmed_spent(notes, Range(found),
                                              send[t].txid, send[t].target_height)
           /\ IF found = ids THEN Goto(t, "marked") ELSE Goto(t, "panicked")
    /\ UNCHANGED <<anchor_offset, blocks, keys, verified_tree, call, lockVars, send_progress, txs, send, sends, env, keyVars, persistVars, record, chan>>

\* send_to_address_internal: scan_full_tx adds the record of the new transaction.
SendIngest(t) ==
    /\ pc[t] = "marked"
    /\ txs' = txs \cup {send[t].txid}
    /\ Goto(t, "ok")
    /\ UNCHANGED <<walletVars, call, lockVars, send_progress, send, sends, env, keyVars, persistVars, record, chan>>

\* send_to_address: set_send_success or set_send_error, then the return.
SendFinish(t) ==
    /\ pc[t] \in {"ok", "error"}
    /\ send_progress' =
         IF pc[t] = "ok"
         THEN [send_progress EXCEPT !.is_send_in_progress = FALSE,
                                    !.last_transaction_id = <<send[t].txid>>]
         ELSE [send_progress EXCEPT !.is_send_in_progress = FALSE,
                                    !.last_error = <<send[t].err>>]
    /\ send' = [send EXCEPT ![t] = NoLocals]
    /\ Goto(t, "returned")
    /\ UNCHANGED <<walletVars, call, lockVars, txs, sends, env, keyVars, persistVars, record, chan>>

\* The txids that notes of the wallet are pending under.
PendingTxids(ns) ==
    {ns[i].unconfirmed_spent[1] : i \in {k \in 1..Len(ns) : ns[k].present /\ IsPendingSpent(ns[k])}}

PendingUnder(n, x) == n.present /\ IsPendingSpent(n) /\ n.unconfirmed_spent[1] = x

\* Chain sync finds a pending transaction mined: the notes pending under it are spent.
ConfirmPending(x) ==
    /\ x \in PendingTxids(notes)
    /\ blocks # <<>>
    /\ notes' = [i \in 1..Len(notes) |->
                    IF PendingUnder(notes[i], x)
                    THEN [notes[i] EXCEPT !.spent = <<x, blocks[1]>>, !.unconfirmed_spent = None]
                    ELSE notes[i]]
    /\ UNCHANGED <<anchor_offset, blocks, keys, verified_tree, call, lockVars, sendVars, keyVars, persistVars, record, chan>>

\* Chain sync drops a pending transaction: the notes pending under it are unspent.
ExpirePending(x) ==
    /\ x \in PendingTxids(notes)
    /\ notes' = [i \in 1..Len(notes) |->
                    IF PendingUnder(notes[i], x)
                    THEN [notes[i] EXCEPT !.unconfirmed_spent = None]
                    ELSE notes[i]]
    /\ UNCHANGED <<anchor_offset, blocks, keys, verified_tree, call, lockVars, sendVars, keyVars, persistVars, record, chan>>

\* LightWallet::set_blocks, called by chain sync with one more block.
set_blocks ==
    /\ blocks # <<>> /\ env = "untouched"
    /\ blocks' = <<blocks[1] + 1>> \o blocks
    /\ env' = "synced"
    /\ UNCHANGED <<notes, anchor_offset, keys, verified_tree, call, lockVars, send_progress, txs, pc, send, sends, keyVars, persistVars, record, chan>>

\* LightWallet::clear_all, first statement: the blocks.
ClearBlocks ==
    /\ env = "untouched"
    /\ blocks' = <<>>
    /\ env' = "clearing"
    /\ UNCHANGED <<notes, anchor_offset, keys, verified_tree, call, lockVars, send_progress, txs, pc, send, sends, keyVars, persistVars, record, chan>>

\* LightWallet::clear_all, second statement: the records.
ClearRecords ==
    /\ env = "clearing"
    /\ notes' = [i \in 1..Len(notes) |-> [notes[i] EXCEPT !.present = FALSE]]
    /\ txs' = {}
    /\ env' = "cleared"
    /\ UNCHANGED <<anchor_offset, blocks, keys, verified_tree, call, lockVars, send_progress, pc, send, sends, keyVars, persistVars, record, chan>>

Next ==
    \/ \E t \in Tasks : SendStart(t)
    \/ \E t \in Tasks, tos \in TosKinds : SendValidate(t, tos)
    \/ \E t \in Tasks : SendTarget(t)
    \/ \E t \in Tasks, amount \in SendAmounts, transparent_only \in BOOLEAN, migrate \in BOOLEAN :
          SendSelect(t, amount, transparent_only, migrate)
    \/ \E t \in Tasks, builder_accepts \in BOOLEAN : SendPrepare(t, builder_accepts)
    \/ \E t \in Tasks : SendBeginBuild(t)
    \/ \E t \in Tasks, built \in BOOLEAN : SendBuild(t, built)
    \/ \E t \in Tasks, accepted \in BOOLEAN : SendBroadcast(t, accepted)
    \/ \E t \in Tasks : SendMark(t)
    \/ \E t \in Tasks : SendIngest(t)
    \/ \E t \in Tasks : SendFinish(t)
    \/ \E x \in Txids : ConfirmPending(x)
    \/ \E x \in Txids : ExpirePending(x)
    \/ set_blocks
    \/ ClearBlocks
    \/ ClearRecords

Spec == Init /\ [][Next]_vars

(***************************************************************************)
(* Properties of Spec.                                                     *)
(***************************************************************************)
\* The broadcast collaborator has returned to the task: with a txid, the
\* marking not yet begun, or with an error that is being surfaced.
BroadcastReturned(t) == pc[t] = "broadcast" \/ (pc[t] = "error" /\ send[t].err = "broadcast")

BroadcastFailed(t) == pc[t] = "error" /\ send[t].err = "broadcast"

\* The note carries the pending marker of the transaction the task built.
MarkedBy(t, i) ==
    notes[i].unconfirmed_spent # None /\ notes[i].unconfirmed_spent[1] = send[t].txid

C4_SendMarksExactlySelected ==
    [][\A t \in Tasks :
          /\ (pc[t] = "validated" /\ pc'[t] = "targeted")
                => send'[t].target_height = blocks[1] + 1
          /\ (pc[t] = "broadcast" /\ pc'[t] = "marked")
                => \A i \in NoteIds :
                      notes'[i] = IF i \in SelectedIds(send[t].selected)
                                  THEN [notes[i] EXCEPT !.unconfirmed_spent =
                                           <<send[t].txid, send[t].target_height>>]
                                  ELSE notes[i]
          /\ (pc'[t] # pc[t])
                => \A i \in NoteIds \ SelectedIds(send[t].selected) : notes'[i] = notes[i]
          /\ (pc'[t] # pc[t] /\ pc[t] # "broadcast") => notes' = notes]_vars

\* A send has succeeded with an orchard note and a transparent output selected:
\* both are pending under its txid and target height, another note is Unspent.
C4_Witness ==
    \E t \in Tasks :
        /\ pc[t] = "ok"
        /\ send[t].selected.orchard_notes # <<>> /\ send[t].selected.utxos # <<>>
        /\ send[t].target_height = blocks[1] + 1
        /\ \A i \in SelectedIds(send[t].selected) :
              notes[i].spent = None
              /\ notes[i].unconfirmed_spent = <<send[t].txid, send[t].target_height>>
        /\ \E i \in NoteIds \ SelectedIds(send[t].selected) : IsUnspent(notes[i])

\* C5: while a note is in the wallet its spend status changes only by
\* Unspent -> PendingSpent, PendingSpent -> ConfirmedSpent or
\* PendingSpent -> Unspent: a pending marker is never replaced, and the fields
\* of a ConfirmedSpent note never change.
C5_StatusOnlyAdvances ==
    [][\A i \in NoteIds : (notes[i].present /\ notes'[i].present) =>
          \/ /\ notes'[i].spent = notes[i].spent
             /\ notes'[i].unconfirmed_spent = notes[i].unconfirmed_spent
          \/ IsUnspent(notes[i]) /\ IsPendingSpent(notes'[i])
          \/ IsPendingSpent(notes[i]) /\ IsConfirmedSpent(notes'[i])
             /\ notes'[i].unconfirmed_spent = None
          \/ IsPendingSpent(notes[i]) /\ IsUnspent(notes'[i])]_vars

(***************************************************************************)
(* SpecLock: the wallet operations as the sequences of guards they take on *)
(* the per-field RwLocks, run by two tasks over fair locks: a request      *)
(* behind a queued one waits its turn, readers behind a queued writer too. *)
(***************************************************************************)
Acq(l, m, sec) == [op |-> "acq", lock |-> l, mode |-> m, sec |-> sec]
Rel(l, m, sec) == [op |-> "rel", lock |-> l, mode |-> m, sec |-> sec]

\* A guard taken and dropped within one expression or statement.
Read(l, sec) == <<Acq(l, "read", sec), Rel(l, "read", sec)>>
Write(l, sec) == <<Acq(l, "write", sec), Rel(l, "write", sec)>>

\* Two temporaries of one expression: the first guard lives until the
\* expression ends, so the second is requested while the first is held.
ReadTwice(l, sec) ==
    <<Acq(l, "read", sec), Acq(l, "read", sec), Rel(l, "read", sec), Rel(l, "read", sec)>>

\* LightWallet::write: the condition keys.read().encrypted && keys.read().unlocked
\* (the second operand only when the first is true), then one field after the other.
write_guards(encrypted) ==
    (IF encrypted THEN ReadTwice("keys", "write") ELSE Read("keys", "write"))
    \o Read("keys", "write") \o Read("blocks", "write") \o Read("records", "write")
    \o Read("wallet_options", "write") \o Read("records", "write")
    \o Read("verified_tree", "write") \o Read("price", "write")

\* get_all_domain_specific_notes: the keys guard, then the records guard, both
\* held to the end of the function, dropped in reverse order.
get_all_domain_specific_notes_guards(sec) ==
    <<Acq("keys", "read", sec), Acq("records", "read", sec),
      Rel("records", "read", sec), Rel("keys", "read", sec)>>

\* select_notes_and_utxos: get_utxos, then the candidates of the two pools.
select_notes_and_utxos_guards(sec) ==
    Read("records", sec) \o get_all_domain_specific_notes_guards(sec)
    \o get_all_domain_specific_notes_guards(sec)

\* A stretch of the operation that takes no guard: a call of a collaborator.
Run(sec) == <<[op |-> "run", lock |-> "none", mode |-> "none", sec |-> sec]>>

\* Mutant: the progress guard taken before the build lives across it.
build_guards_holding_progress ==
    <<Acq("send_progress", "write", "arm")>> \o Run("build")
    \o <<Rel("send_progress", "write", "arm")>> \o Write("send_progress", "built")

\* send_to_address_internal: the progress record is armed in a block of its
\* own, builder.build runs, the in-progress flag is reset.
build_guards == Write("send_progress", "arm") \o Run("build") \o Write("send_progress", "built")

\* Mutant: the marking loops run with the key store still held.
mark_guards_under_keys ==
    <<Acq("keys", "read", "mark"), Acq("records", "write", "mark"),
      Rel("records", "write", "mark"), Rel("keys", "read", "mark")>>

\* send_to_address_internal: the marking block.
mark_guards == Write("records", "mark")

\* send_to_address, when every step succeeds. The change address is read from
\* the key store, twice in one statement, when no sapling note was selected.
send_to_address_guards(sapling_selected) ==
    Write("send_progress", "reset")
    \o Read("keys", "validate") \o Read("blocks", "target") \o Read("keys", "select")
    \o select_notes_and_utxos_guards("select")
    \o Read("verified_tree", "anchor")
    \o (IF sapling_selected THEN <<>> ELSE ReadTwice("keys", "change"))
    \o Read("keys", "outputs") \o Read("keys", "outputs")
    \o build_guards
    \o Run("broadcast")
    \o mark_guards
    \o Read("price", "ingest")
    \o Write("send_progress", "finish")

\* add_imported_tk: the encrypted check, the duplicate check, the push.
add_imported_tk_guards == Read("keys", "import") \o Read("keys", "import") \o Write("keys", "import")

\* encrypt, lock, unlock, remove_encryption: one keys.write().
lock_guards == Write("keys", "lock")

\* spendable_sapling_balance: get_anchor_height, then the keys guard held over
\* shielded_balance, which reads the records.
spendable_balance_guards ==
    Read("blocks", "balance")
    \o <<Acq("keys", "read", "balance"), Acq("records", "read", "balance"),
         Rel("records", "read", "balance"), Rel("keys", "read", "balance")>>

Operations == {"write encrypted", "write", "send", "send sapling", "import", "lock", "balance"}

GuardsOf(o) ==
    CASE o = "write encrypted" -> write_guards(TRUE)
      [] o = "write" -> write_guards(FALSE)
      [] o = "send" -> send_to_address_guards(FALSE)
      [] o = "send sapling" -> send_to_address_guards(TRUE)
      [] o = "import" -> add_imported_tk_guards
      [] o = "lock" -> lock_guards
      [] o = "balance" -> spendable_balance_guards
      [] OTHER -> <<>>

InitLock ==
    /\ notes = SendWallet(TRUE)
    /\ anchor_offset = <<1, 0>>
    /\ blocks = <<3, 2, 1>>
    /\ call = NoCall
    /\ keys = PlainKeys
    /\ verified_tree = TRUE
    /\ send_progress = SendProgressNew(0)
    /\ txs = {}
    /\ pc = [t \in Tasks |-> "idle"]
    /\ send = [t \in Tasks |-> NoLocals]
    /\ sends = 0
    /\ env = NoEnv
    /\ locks = FreeLocks
    /\ lt \in [Tasks -> {[prog |-> o, at |-> 1, waiting |-> FALSE] : o \in Operations}]
    /\ birthday = 0
    /\ zkeys = <<>>
    /\ tkeys = <<>>
    /\ imports = [t \in Tasks |-> NoImport]
    /\ writer = <<>>
    /\ persist = NoPersist
    /\ loaded = None
    /\ record = NoRecord
    /\ chan = NoChannels

Finished(t) == lt[t].at > Len(GuardsOf(lt[t].prog))
NextOp(t) == GuardsOf(lt[t].prog)[lt[t].at]

\* A guard can be handed out: no writer holds the lock, and for a writer no
\* reader either.
Free(l, m) ==
    /\ locks[l].writer = 0
    /\ m = "write" => \A u \in Tasks : locks[l].readers[u] = 0

Given(lk, t, m) ==
    IF m = "write" THEN [lk EXCEPT !.writer = t]
    ELSE [lk EXCEPT !.readers[t] = lk.readers[t] + 1]

Dropped(lk, t, m) ==
    IF m = "write" THEN [lk EXCEPT !.writer = 0]
    ELSE [lk EXCEPT !.readers[t] = lk.readers[t] - 1]

\* read().await or write().await on a lock that is free with nobody queued.
Acquire(t) ==
    /\ ~Finished(t) /\ ~lt[t].waiting /\ NextOp(t).op = "acq"
    /\ LET l == NextOp(t).lock
           m == NextOp(t).mode
       IN  /\ locks[l].queue = <<>> /\ Free(l, m)
           /\ locks' = [locks EXCEPT ![l] = Given(locks[l], t, m)]
    /\ lt' = [lt EXCEPT ![t].at = lt[t].at + 1]
    /\ UNCHANGED <<walletVars, sendVars, call, keyVars, persistVars, record, chan>>

\* read().await or write().await that has to wait: the task joins the queue.
Enqueue(t) ==
    /\ ~Finished(t) /\ ~lt[t].waiting /\ NextOp(t).op = "acq"
    /\ LET l == NextOp(t).lock
           m == NextOp(t).mode
       IN  /\ ~(locks[l].queue = <<>> /\ Free(l, m))
           /\ locks' = [locks EXCEPT ![l].queue = Append(locks[l].queue, [task |-> t, mode |-> m])]
    /\ lt' = [lt EXCEPT ![t].waiting = TRUE]
    /\ UNCHANGED <<walletVars, sendVars, call, keyVars, persistVars, record, chan>>

\* The lock wakes the first of its queue when it can have its guard.
Grant(l) ==
    /\ locks[l].queue # <<>>
    /\ LET w == Head(locks[l].queue)
       IN  /\ Free(l, w.mode)
           /\ locks' = [locks EXCEPT ![l] = [Given(locks[l], w.task, w.mode)
                                               EXCEPT !.queue = Tail(locks[l].queue)]]
           /\ lt' = [lt EXCEPT ![w.task].at = lt[w.task].at + 1, ![w.task].waiting = FALSE]
    /\ UNCHANGED <<walletVars, sendVars, call, keyVars, persistVars, record, chan>>

\* A guard goes out of scope.
Release(t) ==
    /\ ~Finished(t) /\ ~lt[t].waiting /\ NextOp(t).op = "rel"
    /\ locks' = [locks EXCEPT ![NextOp(t).lock] = Dropped(locks[NextOp(t).lock], t, NextOp(t).mode)]
    /\ lt' = [lt EXCEPT ![t].at = lt[t].at + 1]
    /\ UNCHANGED <<walletVars, sendVars, call, keyVars, persistVars, record, chan>>

\* The task runs a collaborator to its end.
RunCollaborator(t) ==
    /\ ~Finished(t) /\ ~lt[t].waiting /\ NextOp(t).op = "run"
    /\ lt' = [lt EXCEPT ![t].at = lt[t].at + 1]
    /\ UNCHANGED <<walletVars, sendVars, call, locks, keyVars, persistVars, record, chan>>

NextLock ==
    \/ \E t \in Tasks : RunCollaborator(t)
    \/ \E t \in Tasks : Acquire(t)
    \/ \E t \in Tasks : Enqueue(t)
    \/ \E l \in Locks : Grant(l)
    \/ \E t \in Tasks : Release(t)

SpecLock == InitLock /\ [][NextLock]_vars

(***************************************************************************)
(* Properties of SpecLock.                                                 *)
(***************************************************************************)
Holds(t, l) == locks[l].writer = t \/ locks[l].readers[t] > 0

IsSend(t) == lt[t].prog \in {"send", "send sapling"}

\* The part of its operation the task is in: that of the last guard it took or
\* dropped.
SectionOf(t) == IF lt[t].at = 1 THEN "none" ELSE GuardsOf(lt[t].prog)[lt[t].at - 1].sec

CanStep(t) == ~Finished(t) /\ ~lt[t].waiting
CanGrant(l) == locks[l].queue # <<>> /\ Free(l, Head(locks[l].queue).mode)

\* C9: no task waits forever for a wallet lock: while a task waits, a task can
\* still run or a lock can still wake the first of its queue.
C9_NoTaskWaitsForever ==
    (\E t \in Tasks : lt[t].waiting) =>
        \/ \E t \in Tasks : CanStep(t)
        \/ \E l \in Locks : CanGrant(l)

\* C10 as stated: a sending task never holds the key-store lock and the
\* transaction-records lock at the same time.
C10_KeysAndRecordsNeverOverlap ==
    \A t \in Tasks : IsSend(t) => ~(Holds(t, "keys") /\ Holds(t, "records"))

\* C10, amended: a sending task holds the key-store lock and the
\* transaction-records lock together only during note selection, both for
\* reading, the key store taken first; the records write guard of the marking
\* step is never held together with the key-store lock.
C10_OverlapOnlyReadingInSelection ==
    \A t \in Tasks : IsSend(t) =>
        /\ (Holds(t, "keys") /\ Holds(t, "records")) =>
              /\ SectionOf(t) = "select"
              /\ locks["keys"].writer # t /\ locks["records"].writer # t
        /\ (Holds(t, "records") /\ ~Holds(t, "keys")) =>
              (NextOp(t).op = "acq" => NextOp(t).lock # "keys")
        /\ locks["records"].writer = t => ~Holds(t, "keys")

\* A sending task in note selection holds read guards on both locks.
C10_Witness ==
    \E t \in Tasks :
        /\ IsSend(t) /\ SectionOf(t) = "select"
        /\ locks["keys"].readers[t] > 0 /\ locks["records"].readers[t] > 0

\* The guards a task holds, over all wallet locks.
HeldBy(t) == {l \in Locks : Holds(t, l)}

\* The task is at a collaborator call: about to enter it, or in it.
AtCall(t, sec) == ~Finished(t) /\ NextOp(t).op = "run" /\ NextOp(t).sec = sec

\* C11: while builder.build runs the sending task holds no wallet lock: every
\* guard taken before the build has been dropped when the build is entered.
C11_NoLockHeldWhileBuilding ==
    \A t \in Tasks : (IsSend(t) /\ AtCall(t, "build")) => HeldBy(t) = {}

\* A sending task is in the build while the other task holds a wallet lock the
\* send took earlier.
C11_Witness ==
    \E t \in Tasks : \E u \in Tasks \ {t} :
        /\ IsSend(t) /\ AtCall(t, "build") /\ HeldBy(t) = {}
        /\ HeldBy(u) \cap {"keys", "send_progress"} # {}

(***************************************************************************)
(* Properties of Spec: the failures of a send.                             *)
(***************************************************************************)
\* The failures raised before the transaction is built: a locked wallet, no
\* recipient, an undecodable recipient, no block, an input without key, a
\* refusal of the builder.
EarlyErrors == {"locked", "no destination", "invalid address", "no blocks", "builder", "build"}

\* Where a send stands before its transaction is handed to the broadcast.
BeforeBroadcast == {"idle", "reset", "validated", "targeted", "selected", "prepared", "building"}

\* Everything of the wallet but the progress record.
allButProgress == <<notes, blocks, keys, verified_tree, birthday, zkeys, txs, anchor_offset>>

\* C12: a send that fails on a locked wallet, an empty or undecodable
\* recipient list, a missing block, an input without signing key or a refusal
\* of the builder has changed neither the records, the key store, the block
\* window nor the birthday: each of its steps, up to the return of the error,
\* changes at most the progress record.
C12_EarlyFailureChangesOnlyProgress ==
    [][\A t \in Tasks :
          /\ (pc[t] = "error" /\ send[t].err \in EarlyErrors)
                => /\ send[t].invoked \subseteq {"build"}
                   /\ \A i \in NoteIds : ~MarkedBy(t, i)
          /\ (pc'[t] # pc[t] /\ pc[t] \in BeforeBroadcast) => UNCHANGED allButProgress
          /\ (pc'[t] # pc[t] /\ pc[t] = "error" /\ send[t].err \in EarlyErrors)
                => /\ UNCHANGED allButProgress
                   /\ send_progress'.last_error = <<send[t].err>>]_vars

\* A send whose inputs the builder refused is about to return its error: the
\* notes it selected are Unspent.
C12_Witness ==
    \E t \in Tasks :
        /\ pc[t] = "error" /\ send[t].err = "builder"
        /\ SelectedIds(send[t].selected) # {}
        /\ \A i \in SelectedIds(send[t].selected) : notes[i].present /\ IsUnspent(notes[i])

\* C13: when selection returns less than the recipients' amounts plus the fee
\* the send fails with the insufficient-funds error, naming the last
\* configured anchor offset + 1 as required confirmations; the failing step
\* changes no note, and neither the builder nor the broadcast has been called
\* when the error is returned.
C13_ShortfallFailsBeforeBuilding ==
    [][\A t \in Tasks :
          /\ (pc[t] = "targeted" /\ pc'[t] # pc[t]) =>
                \E amount \in SendAmounts, transparent_only \in BOOLEAN, migrate \in BOOLEAN :
                    LET sel == select_notes_and_utxos(notes, anchor_offset, amount + DEFAULT_FEE,
                                                      transparent_only, TRUE, migrate)
                    IN  IF sel.value < amount + DEFAULT_FEE
                        THEN /\ pc'[t] = "error" /\ send'[t].err = "insufficient funds"
                             /\ send'[t].confirmations = anchor_offset[Len(anchor_offset)] + 1
                             /\ notes' = notes
                        ELSE /\ pc'[t] = "selected" /\ send'[t].selected = sel
          /\ (pc[t] = "error" /\ send[t].err = "insufficient funds") =>
                /\ send[t].invoked = {}
                /\ \A i \in NoteIds : ~MarkedBy(t, i)
                /\ pc'[t] \in {"error", "returned"}
                /\ pc'[t] # pc[t] => notes' = notes]_vars

\* The insufficient-funds error is being returned from a wallet that holds
\* unspent notes, none of them marked.
C13_Witness ==
    \E t \in Tasks :
        /\ pc[t] = "error" /\ send[t].err = "insufficient funds"
        /\ send[t].confirmations = anchor_offset[Len(anchor_offset)] + 1
        /\ \E i \in NoteIds : notes[i].present /\ IsUnspent(notes[i])
        /\ \A i \in NoteIds : notes[i].unconfirmed_spent = None

\* C14: every send first replaces the progress record by a fresh one of id
\* previous + 1 with flag, counters, last error and last txid cleared; the id
\* never decreases, only a send's start raises it, and two sends in flight
\* have different ids.
C14_ProgressIdStrictlyIncreasing ==
    [][/\ send_progress'.id >= send_progress.id
       /\ \A t \in Tasks : (pc[t] = "idle" /\ pc'[t] # "idle") =>
             /\ send_progress' = SendProgressNew(send_progress.id + 1)
             /\ send'[t].id = send_progress.id + 1
       /\ send_progress'.id # send_progress.id => \E t \in Tasks : pc[t] = "idle" /\ pc'[t] # "idle"
       /\ \A t \in Tasks : \A u \in Tasks \ {t} :
             (pc'[t] \notin {"idle", "returned"} /\ pc'[u] \notin {"idle", "returned"})
                => send'[t].id # send'[u].id]_vars

\* Two sends are in flight, the second started over the finished build of the
\* first: the record carries the second's id and none of the first's state.
C14_Witness ==
    \E t \in Tasks : \E u \in Tasks \ {t} :
        /\ pc[t] = "built" /\ pc[u] = "reset"
        /\ send[u].id = send[t].id + 1
        /\ send_progress = SendProgressNew(send[u].id)

(***************************************************************************)
(* SpecKeys: imports of sapling keys by two tasks. A key is named by its   *)
(* viewing key; the wallet holds it with or without the spending key.      *)
(***************************************************************************)
\* config.sapling_activation_height(), in the units of Heights.
sapling_activation_height == 2

\* Birthdays stored and asserted: none, below, at and above the activation.
Heights == {0, 1, 2, 3, 4}

KeyIds == {1, 2}
ImportKinds == {"spend", "view", "undecodable"}

WalletKey(k, has_sk) == [fvk |-> k, sk |-> has_sk]

\* key_matcher of add_imported_sapling_extsk: the same spending key is held;
\* of add_imported_sapling_extfvk: the same viewing key is held.
key_matcher(wk, kind, k) ==
    IF kind = "spend" THEN wk.sk /\ wk.fvk = k ELSE wk.fvk = k

KeyExists(zk, kind, k) == \E j \in 1..Len(zk) : key_matcher(zk[j], kind, k)

\* adjust_wallet_birthday, the value stored for a loaded one.
adjusted_birthday(wallet_birthday, new_birthday) ==
    IF new_birthday < wallet_birthday
    THEN Max(new_birthday, sapling_activation_height) ELSE wallet_birthday

\* Mutant: the spending key is pushed as a new entry whatever the list holds.
update_view_key_always_pushing(zk, kind, k) == Append(zk, WalletKey(k, kind = "spend"))

\* update_view_key: a held viewing key gets the spending key in place, else
\* the key is pushed. The closure of add_imported_sapling_extfvk pushes.
\* add_imported_orchard_spending_key takes the same path over okeys.
update_view_key(zk, kind, k) ==
    IF kind = "spend" /\ \E j \in 1..Len(zk) : zk[j].fvk = k
    THEN LET j == CHOOSE i \in 1..Len(zk) : zk[i].fvk = k /\ \A h \in 1..(i - 1) : zk[h].fvk # k
         IN  [zk EXCEPT ![j] = WalletKey(k, TRUE)]
    ELSE Append(zk, WalletKey(k, kind = "spend"))

\* WalletKey::address of an entry of the key list.
AddressOf(wk) == <<"address", wk>>

\* The address update_view_key and the closure of add_imported_sapling_extfvk
\* return: that of the entry upgraded, else that of the entry pushed.
update_view_key_address(zk, kind, k) ==
    IF kind = "spend" /\ \E j \in 1..Len(zk) : zk[j].fvk = k
    THEN AddressOf(WalletKey(k, TRUE))
    ELSE AddressOf(WalletKey(k, kind = "spend"))

InitKeys ==
    /\ notes = SendWallet(TRUE)
    /\ anchor_offset = <<1, 0>>
    /\ blocks = <<3, 2, 1>>
    /\ call = NoCall
    /\ keys \in {PlainKeys, LockedKeys, UnlockedKeys}
    /\ verified_tree = TRUE
    /\ send_progress = SendProgressNew(0)
    /\ txs = {}
    /\ pc = [t \in Tasks |-> "idle"]
    /\ send = [t \in Tasks |-> NoLocals]
    /\ sends = 0
    /\ env = NoEnv
    /\ locks = FreeLocks
    /\ lt = [t \in Tasks |-> NoOperation]
    /\ birthday \in Heights
    /\ zkeys \in {<<WalletKey(1, TRUE)>>, <<WalletKey(1, FALSE)>>}
    /\ tkeys = <<>>
    /\ imports = [t \in Tasks |-> NoImport]
    /\ writer = <<>>
    /\ persist = NoPersist
    /\ loaded = None
    /\ record = NoRecord
    /\ chan = NoChannels

ImportReturns(t, kind, k, b, r) ==
    imports' = [imports EXCEPT ![t] = [NoImport EXCEPT !.pc = "returned", !.kind = kind, !.key = k,
                                                       !.birthday = b, !.result = r]]

\* Mutant: the birthday is adjusted before the key is looked up.
ImportStart_adjusting_first(t, kind, k, b) ==
    /\ imports[t].pc = "idle"
    /\ \A u \in Tasks : u < t => imports[u].pc # "idle"
    /\ birthday' = adjusted_birthday(birthday, b)
    /\ IF KeyExists(zkeys, kind, k) THEN ImportReturns(t, kind, k, b, "Key already exists")
       ELSE imports' = [imports EXCEPT ![t] = [NoImport EXCEPT !.pc = "adjusted", !.kind = kind,
                                                             !.key = k, !.birthday = b]]
    /\ UNCHANGED <<walletVars, sendVars, call, lockVars, persistVars, record, chan, zkeys, tkeys>>

\* add_imported_key: the encrypted check, the decoding, the duplicate check.
ImportStart(t, kind, k, b) ==
    /\ imports[t].pc = "idle"
    /\ \A u \in Tasks : u < t => imports[u].pc # "idle"
    /\ IF keys.encrypted THEN ImportReturns(t, kind, k, b, "wallet is encrypted")
       ELSE IF kind = "undecodable" THEN ImportReturns(t, kind, k, b, "Couldn't decode")
       ELSE IF KeyExists(zkeys, kind, k) THEN ImportReturns(t, kind, k, b, "Key already exists")
       ELSE imports' = [imports EXCEPT ![t] = [NoImport EXCEPT !.pc = "checked", !.kind = kind,
                                                             !.key = k, !.birthday = b]]
    /\ UNCHANGED <<walletVars, sendVars, call, lockVars, persistVars, record, chan, birthday, zkeys, tkeys>>

\* adjust_wallet_birthday: birthday.load.
ImportLoadBirthday(t) ==
    /\ imports[t].pc = "checked"
    /\ imports' = [imports EXCEPT ![t].pc = "loaded", ![t].loaded = birthday]
    /\ UNCHANGED <<walletVars, sendVars, call, lockVars, persistVars, record, chan, birthday, zkeys, tkeys>>

\* adjust_wallet_birthday: the comparison and birthday.store.
ImportStoreBirthday(t) ==
    /\ imports[t].pc = "loaded"
    /\ birthday' = IF imports[t].birthday < imports[t].loaded
                   THEN adjusted_birthday(imports[t].loaded, imports[t].birthday)
                   ELSE birthday
    /\ imports' = [imports EXCEPT ![t].pc = "adjusted"]
    /\ UNCHANGED <<walletVars, sendVars, call, lockVars, persistVars, record, chan, zkeys, tkeys>>

\* address_getter under keys.write(), then the address is returned.
ImportAddKey(t) ==
    /\ imports[t].pc = "adjusted"
    /\ zkeys' = update_view_key(zkeys, imports[t].kind, imports[t].key)
    /\ imports' = [imports EXCEPT ![t].pc = "returned", ![t].result = "address",
                                  ![t].address = update_view_key_address(zkeys, imports[t].kind,
                                                                         imports[t].key)]
    /\ UNCHANGED <<walletVars, sendVars, call, lockVars, persistVars, record, chan, birthday, tkeys>>

\* Mutant: a transparent key is refused only while the wallet is locked.
ImportTk_unless_unlocked(t, k, decodable) ==
    /\ imports[t].pc = "idle"
    /\ \A u \in Tasks : u < t => imports[u].pc # "idle"
    /\ IF keys.encrypted /\ ~keys.unlocked
       THEN ImportReturns(t, "transparent", k, 0, "wallet is encrypted")
       ELSE IF ~decodable THEN ImportReturns(t, "transparent", k, 0, "Couldn't decode")
       ELSE IF \E j \in 1..Len(tkeys) : tkeys[j] = k
            THEN ImportReturns(t, "transparent", k, 0, "Key already exists")
       ELSE imports' = [imports EXCEPT ![t] = [NoImport EXCEPT !.pc = "tk_checked",
                                                             !.kind = "transparent", !.key = k]]
    /\ UNCHANGED <<walletVars, sendVars, call, lockVars, persistVars, record, chan, birthday, zkeys, tkeys>>

\* add_imported_tk: the encrypted check, the decoding, the duplicate check.
ImportTk(t, k, decodable) ==
    /\ imports[t].pc = "idle"
    /\ \A u \in Tasks : u < t => imports[u].pc # "idle"
    /\ IF keys.encrypted THEN ImportReturns(t, "transparent", k, 0, "wallet is encrypted")
       ELSE IF ~decodable THEN ImportReturns(t, "transparent", k, 0, "Couldn't decode")
       ELSE IF \E j \in 1..Len(tkeys) : tkeys[j] = k
            THEN ImportReturns(t, "transparent", k, 0, "Key already exists")
       ELSE imports' = [imports EXCEPT ![t] = [NoImport EXCEPT !.pc = "tk_checked",
                                                             !.kind = "transparent", !.key = k]]
    /\ UNCHANGED <<walletVars, sendVars, call, lockVars, persistVars, record, chan, birthday, zkeys, tkeys>>

\* add_imported_tk: keys.write().await.tkeys.push(sk), and the address returned.
ImportTkPush(t) ==
    /\ imports[t].pc = "tk_checked"
    /\ tkeys' = Append(tkeys, imports[t].key)
    /\ imports' = [imports EXCEPT ![t].pc = "returned", ![t].result = "address",
                                  ![t].address = <<"address", imports[t].key>>]
    /\ UNCHANGED <<walletVars, sendVars, call, lockVars, persistVars, record, chan, birthday, zkeys>>

NextKeys ==
    \/ \E t \in Tasks, kind \in ImportKinds, k \in KeyIds, b \in Heights : ImportStart(t, kind, k, b)
    \/ \E t \in Tasks : ImportLoadBirthday(t)
    \/ \E t \in Tasks : ImportStoreBirthday(t)
    \/ \E t \in Tasks : ImportAddKey(t)
    \/ \E t \in Tasks, k \in KeyIds, decodable \in BOOLEAN : ImportTk(t, k, decodable)
    \/ \E t \in Tasks : ImportTkPush(t)

SpecKeys == InitKeys /\ [][NextKeys]_vars

(***************************************************************************)
(* Properties of SpecKeys.                                                 *)
(***************************************************************************)
\* C15: across any sequence and interleaving of key imports, whatever the
\* birthday stored before and the height asserted, the stored birthday never
\* increases.
C15_BirthdayNeverIncreases == [][birthday' <= birthday]_vars

\* C16: the import of a spending key the wallet already holds returns "Key
\* already exists" and leaves the key list and the birthday unchanged, also
\* when it asserts a birthday below the stored one.
C16_DuplicateImportChangesNothing ==
    [][\A t \in Tasks :
          (/\ imports[t].pc = "idle" /\ imports'[t].pc # "idle"
           /\ ~keys.encrypted /\ imports'[t].kind = "spend"
           /\ \E j \in 1..Len(zkeys) : zkeys[j].sk /\ zkeys[j].fvk = imports'[t].key)
          => /\ imports'[t].pc = "returned" /\ imports'[t].result = "Key already exists"
             /\ zkeys' = zkeys /\ birthday' = birthday]_vars

\* The import of a held spending key has returned the error; it asserted a
\* birthday below the stored one, which stands above the activation height.
C16_Witness ==
    \E t \in Tasks :
        /\ imports[t].pc = "returned" /\ imports[t].result = "Key already exists"
        /\ imports[t].kind = "spend"
        /\ imports[t].birthday < birthday /\ birthday > sapling_activation_height
        /\ \E j \in 1..Len(zkeys) : zkeys[j] = WalletKey(imports[t].key, TRUE)

\* The entries the key lists hold for key k of an import of the kind.
EntriesFor(kind, k) ==
    IF kind = "transparent" THEN {j \in 1..Len(tkeys) : tkeys[j] = k}
    ELSE {j \in 1..Len(zkeys) : zkeys[j].fvk = k}

\* Two imports of the same key by the same entry point have both returned,
\* from a wallet that is not encrypted and of a key that decodes.
SameKeyImported(t, u) ==
    /\ imports[t].pc = "returned" /\ imports[u].pc = "returned"
    /\ imports[t].kind = imports[u].kind /\ imports[t].key = imports[u].key
    /\ imports[t].kind \in {"transparent", "spend", "view"}
    /\ ~keys.encrypted
    /\ imports[t].result \in {"address", "Key already exists"}
    /\ imports[u].result \in {"address", "Key already exists"}

\* C35: in every interleaving of concurrent imports of the same key
\* (transparent key, sapling spending key, sapling viewing key; the orchard
\* spending key takes the path of the sapling one), the key list ends with
\* at most one entry for that key, and all but one of the imports return
\* "Key already exists".
C35_SameKeyImportsLeaveOneEntry ==
    \A t, u \in Tasks :
        (t < u /\ SameKeyImported(t, u))
        => /\ Cardinality(EntriesFor(imports[t].kind, imports[t].key)) <= 1
           /\ "Key already exists" \in {imports[t].result, imports[u].result}

\* C36: importing any key (transparent, spending or viewing) while the key
\* store is encrypted, locked or unlocked, returns an error and leaves the
\* key lists and the wallet birthday unchanged.
C36_ImportWhileEncryptedChangesNothing ==
    [][keys.encrypted
       => /\ zkeys' = zkeys /\ tkeys' = tkeys /\ birthday' = birthday
          /\ \A t \in Tasks :
                imports'[t] # imports[t]
                => imports'[t].pc = "returned" /\ imports'[t].result = "wallet is encrypted"]_vars

\* An unlocked encrypted wallet has refused a transparent key and a sapling
\* key that asserted a birthday below the stored one.
C36_Witness ==
    /\ keys = UnlockedKeys
    /\ \E t, u \in Tasks :
          /\ imports[t].pc = "returned" /\ imports[t].kind = "transparent"
          /\ imports[t].result = "wallet is encrypted"
          /\ imports[u].pc = "returned" /\ imports[u].kind \in {"spend", "view"}
          /\ imports[u].result = "wallet is encrypted" /\ imports[u].birthday < birthday

\* C37: importing a spending key whose full viewing key is already in the
\* wallet as a view-only entry upgrades that entry in place: the key-list
\* length is unchanged, the entry becomes spend-capable, and the returned
\* address is that entry's address; only when no entry has that viewing key
\* is a new entry appended.
C37_SpendKeyUpgradesViewEntryInPlace ==
    [][\A t \in Tasks :
          (imports[t].pc = "adjusted" /\ imports'[t].pc = "returned" /\ imports[t].kind = "spend")
          => IF \E j \in 1..Len(zkeys) : zkeys[j].fvk = imports[t].key
             THEN /\ Len(zkeys') = Len(zkeys)
                  /\ \E j \in 1..Len(zkeys) :
                        /\ zkeys[j].fvk = imports[t].key
                        /\ zkeys'[j].fvk = imports[t].key /\ zkeys'[j].sk
                        /\ imports'[t].address = AddressOf(zkeys'[j])
                        /\ \A i \in 1..Len(zkeys) : i # j => zkeys'[i] = zkeys[i]
             ELSE /\ zkeys' = Append(zkeys, WalletKey(imports[t].key, TRUE))
                  /\ imports'[t].address = AddressOf(zkeys'[Len(zkeys')])]_vars

\* The spending key of the one view-only entry was imported: the list still
\* has one entry, now spend-capable, and the import returned its address.
C37_Witness ==
    /\ Len(zkeys) = 1 /\ zkeys[1].sk
    /\ \E t \in Tasks :
          /\ imports[t].pc = "returned" /\ imports[t].kind = "spend"
          /\ imports[t].key = zkeys[1].fvk
          /\ imports[t].result = "address" /\ imports[t].address = AddressOf(zkeys[1])

(***************************************************************************)
(* SpecPersist: LightWallet::write of a wallet at rest and LightWallet::read *)
(* of what was written. The writer receives a sequence of fields, in the   *)
(* order write emits them; read consumes them in its own order.            *)
(***************************************************************************)
\* LightWallet::serialized_version.
serialized_version == 24

\* The leading versions read is given: the current one and a later one.
Versions == {serialized_version, serialized_version + 1}

\* config.chain of the wallet written, and of the configurations read is given.
WalletChain == "main"
Chains == {"main", "test"}

\* zcash_encoding Vector::write, Vector::read: the length, then the elements.
Vector_write(s) == <<Len(s)>> \o s
Vector_read(f) == SubSeq(f, 2, f[1] + 1)

\* zcash_encoding Optional::write, Optional::read, of verified_tree.
Optional_write(present) == IF present THEN <<1, "tree">> ELSE <<0>>
Optional_read(f) == f[1] = 1

Reverse(s) == [i \in 1..Len(s) |-> s[Len(s) + 1 - i]]

\* Keys::write, Keys::read: the encrypted flag and the keys; a wallet read
\* is unlocked exactly when it is not encrypted.
Keys_write(k, zk) == <<k.encrypted, Vector_write(zk)>>
Keys_read(f) == [keys |-> [encrypted |-> f[1], unlocked |-> ~f[1]], zkeys |-> Vector_read(f[2])]

\* Keys::have_sapling_spending_key of the key the shielded notes were received under.
have_sapling_spending_key(zk, k) == \E j \in 1..Len(zk) : zk[j].fvk = k /\ zk[j].sk

\* A note as written: the records hold no key, only what was received.
note_write(n) == <<n.pool, n.value, n.witnesses, n.block, n.spent, n.unconfirmed_spent>>
note_read(f, zk) ==
    Note(f[1], f[2], f[1] = Transparent \/ have_sapling_spending_key(zk, 1), f[3], f[4], <<f[5], f[6]>>)

\* TransactionMetadataSet::write, TransactionMetadataSet::read: the records held.
records_write(ns) ==
    LET held == FilterIds(AllIds(ns), {i \in 1..Len(ns) : ns[i].present})
    IN  Vector_write([j \in 1..Len(held) |-> note_write(ns[held[j]])])
records_read(f, zk) ==
    LET fs == Vector_read(f) IN [j \in 1..Len(fs) |-> note_read(fs[j], zk)]

\* LightWallet::get_first_transaction_block.
get_first_transaction_block(ns, b) ==
    LET heights == {ns[i].block : i \in {k \in 1..Len(ns) : ns[k].present}}
    IN  IF heights = {} THEN Max(b, sapling_activation_height)
        ELSE CHOOSE h \in heights : \A x \in heights : h <= x

\* LightWallet::get_birthday.
get_birthday(ns, b) ==
    IF b = 0 THEN get_first_transaction_block(ns, b)
    ELSE Min(get_first_transaction_block(ns, b), b)

\* Mutant: an encrypted wallet is refused whether unlocked or not.
write_refuses_when_encrypted(k) == k.encrypted

\* LightWallet::write, its first statement.
write_refuses(k) == k.encrypted /\ k.unlocked

\* LightWallet::write after the check: version, keys, blocks, records, chain
\* name, options, the birthday as get_birthday gives it, verified tree, price.
write(k, zk, bl, ns, chain, b, vt) ==
    <<serialized_version, Keys_write(k, zk), Vector_write(bl), records_write(ns), chain,
      "options", get_birthday(ns, b), Optional_write(vt), "price">>

\* Mutant: a version one above the current one is still read.
version_unknown_beyond_next(version) == version > serialized_version + 1

\* LightWallet::read, the version check.
version_unknown(version) == version > serialized_version

\* Mutant: the blocks are reversed whatever the version.
read_blocks_reversed(version, f) == Reverse(Vector_read(f))

\* LightWallet::read, the block window: stored lowest first up to version 14.
read_blocks(version, f) == IF version <= 14 THEN Reverse(Vector_read(f)) ELSE Vector_read(f)

NotRead(e) == [result |-> e, wallet |-> None]

\* LightWallet::read under a configuration of the given chain. Fields absent
\* from older versions take no place in the sequence.
read(r, chain) ==
    LET version == r[1]
        at_birthday == IF version <= 23 THEN 6 ELSE 7
        at_tree == IF version <= 22 /\ version > 12 THEN at_birthday + 2 ELSE at_birthday + 1
    IN  IF version_unknown(version) THEN NotRead("version")
        ELSE LET ks == Keys_read(r[2])
                 bl == read_blocks(version, r[3])
                 ns == records_read(r[4], ks.zkeys)
             IN  IF r[5] # chain THEN NotRead("chain")
                 ELSE [result |-> "ok",
                       wallet |-> <<[keys |-> ks.keys, zkeys |-> ks.zkeys, blocks |-> bl,
                                     notes |-> ns, birthday |-> r[at_birthday],
                                     verified_tree |-> IF version <= 21 THEN FALSE
                                                       ELSE Optional_read(r[at_tree]),
                                     send_progress |-> SendProgressNew(0)]>>]

\* The wallets written: every note unspent, pending or spent alike, the
\* shielded ones received under key 1, heights alternating; or no record at all.
PersistNote(i, zk, w, b, f) ==
    Note(PoolOf(i), i, PoolOf(i) = Transparent \/ have_sapling_spending_key(zk, 1),
         IF PoolOf(i) = Transparent THEN 0 ELSE w, IF i % 2 = 1 THEN b ELSE 5 - b, f)

PersistWallet(zk, w, b, f, present) ==
    [i \in NoteIds |-> [PersistNote(i, zk, w, b, f) EXCEPT !.present = present]]

InitPersist ==
    /\ zkeys \in {<<WalletKey(1, TRUE)>>, <<WalletKey(1, FALSE)>>}
    /\ tkeys = <<>>
    /\ \E w \in {0, FullWitnesses}, b \in NoteHeights, present \in BOOLEAN,
          f \in {UnspentFields, PendingFields, SpentFields} :
            notes = PersistWallet(zkeys, w, b, f, present)
    /\ anchor_offset \in AnchorOffsets
    /\ blocks \in BlockWindows
    /\ call = NoCall
    /\ keys \in {PlainKeys, LockedKeys, UnlockedKeys}
    /\ verified_tree \in BOOLEAN
    /\ send_progress = SendProgressNew(0)
    /\ txs = {}
    /\ pc = [t \in Tasks |-> "idle"]
    /\ send = [t \in Tasks |-> NoLocals]
    /\ sends = 0
    /\ env = NoEnv
    /\ locks = FreeLocks
    /\ lt = [t \in Tasks |-> NoOperation]
    /\ birthday \in Heights
    /\ imports = [t \in Tasks |-> NoImport]
    /\ writer = <<>>
    /\ persist = NoPersist
    /\ loaded = None
    /\ record = NoRecord
    /\ chan = NoChannels

\* LightWallet::write.
WalletWrite ==
    /\ persist.write = "none"
    /\ IF write_refuses(keys)
       THEN persist' = [persist EXCEPT !.write = "refused"] /\ UNCHANGED writer
       ELSE /\ writer' = write(keys, zkeys, blocks, notes, WalletChain, birthday, verified_tree)
            /\ persist' = [persist EXCEPT !.write = "ok"]
    /\ UNCHANGED <<walletVars, sendVars, call, lockVars, keyVars, loaded, record, chan>>

\* LightWallet::read of what was written, or of the same with another leading
\* version, under a configuration of some chain.
WalletRead(version, chain) ==
    /\ persist.write = "ok" /\ persist.read = "none"
    /\ LET r == read([writer EXCEPT ![1] = version], chain)
       IN  /\ persist' = [persist EXCEPT !.read = r.result, !.version = version, !.chain = chain]
           /\ loaded' = r.wallet
    /\ UNCHANGED <<walletVars, sendVars, call, lockVars, keyVars, writer, record, chan>>

NextPersist ==
    \/ WalletWrite
    \/ \E version \in Versions, chain \in Chains : WalletRead(version, chain)

SpecPersist == InitPersist /\ [][NextPersist]_vars

(***************************************************************************)
(* Properties of SpecPersist.                                              *)
(***************************************************************************)
\* C17: write returns an error and emits nothing when the key store is
\* encrypted and unlocked; a plaintext wallet and an encrypted, locked one
\* are written.
C17_WriteRefusedIffEncryptedAndUnlocked ==
    [][(persist.write = "none" /\ persist'.write # "none")
          => IF keys.encrypted /\ keys.unlocked
             THEN persist'.write = "refused" /\ writer' = <<>>
             ELSE persist'.write = "ok" /\ writer' # <<>> /\ writer'[1] = serialized_version]_vars

C17_Witness == persist.write = "refused" /\ keys = UnlockedKeys /\ writer = <<>>

\* C18: read fails and constructs no wallet when the leading version is above
\* the current one or the stored chain name is not the configuration's.
C18_ReadFailsOnLaterVersionOrOtherChain ==
    (persist.read # "none" /\ (persist.version > 24 \/ persist.chain # WalletChain))
        => persist.read \in {"version", "chain"} /\ loaded = None

C18_Witness ==
    /\ persist.read = "chain" /\ persist.version = 24 /\ loaded = None
    /\ \E i \in NoteIds : notes[i].present

\* The balances of a wallet, pool by pool: gross, verified, unverified, spendable.
BalancesOf(ns, bl, ao) ==
    <<tbalance(ns),
      [p \in {Sapling, Orchard} |->
          <<maybe_verified_balance(ns, p), verified_balance(ns, bl, ao, p),
            unverified_balance(ns, bl, ao, p), spendable_balance(ns, bl, ao, p)>>]>>

MaxTip == 5

InitTip ==
    /\ zkeys \in {<<WalletKey(1, TRUE)>>, <<WalletKey(1, FALSE)>>}
    /\ tkeys = <<>>
    /\ \E w \in {0, FullWitnesses}, b \in NoteHeights,
          f \in {UnspentFields, PendingFields, SpentFields} :
            notes = PersistWallet(zkeys, w, b, f, TRUE)
    /\ anchor_offset \in AnchorOffsets
    /\ blocks \in BlockWindows
    /\ call = NoCall
    /\ keys = PlainKeys
    /\ verified_tree = TRUE
    /\ send_progress = SendProgressNew(0)
    /\ txs = {}
    /\ pc = [t \in Tasks |-> "idle"]
    /\ send = [t \in Tasks |-> NoLocals]
    /\ sends = 0
    /\ env = NoEnv
    /\ locks = FreeLocks
    /\ lt = [t \in Tasks |-> NoOperation]
    /\ birthday = 0
    /\ imports = [t \in Tasks |-> NoImport]
    /\ writer = <<>>
    /\ persist = NoPersist
    /\ loaded = None
    /\ record = NoRecord
    /\ chan = NoChannels

\* LightWallet::set_blocks as chain sync calls it without a reorg: the window
\* with the block of height h in front, the oldest block dropped or kept.
AdvanceTip(h, drop) ==
    /\ h <= MaxTip
    /\ IF blocks = <<>> THEN TRUE ELSE h = blocks[1] + 1
    /\ blocks' = LET w == <<h>> \o blocks
                 IN  IF drop /\ Len(w) > 1 THEN SubSeq(w, 1, Len(w) - 1) ELSE w
    /\ call' = [op |-> "set_blocks", before |-> blocks]
    /\ UNCHANGED <<notes, anchor_offset, keys, verified_tree, sendVars, lockVars, keyVars, persistVars, record, chan>>

NextTip == \E h \in 1..(MaxTip + 1), drop \in BOOLEAN : AdvanceTip(h, drop)

SpecTip == InitTip /\ [][NextTip]_vars

(***************************************************************************)
(* Properties of SpecTip.                                                  *)
(***************************************************************************)
\* The wallet holding the i-th note alone.
Only(ns, i) == [j \in 1..Len(ns) |-> IF j = i THEN ns[j] ELSE [ns[j] EXCEPT !.present = FALSE]]

\* The note counts in the unverified, in the verified balance of its pool.
InUnverified(ns, bl, i) == unverified_balance(Only(ns, i), bl, anchor_offset, ns[i].pool) = ns[i].value
InVerified(ns, bl, i) == verified_balance(Only(ns, i), bl, anchor_offset, ns[i].pool) = ns[i].value

\* The shielded notes that are unspent, not pending and whose key is held.
HeldUnspent(ns) ==
    {i \in 1..Len(ns) : /\ ns[i].present /\ ns[i].pool # Transparent
                        /\ IsUnspent(ns[i]) /\ ns[i].have_sk}

TransparentOutput(value, fields, output_index) ==
    [value |-> value, spent |-> fields[1], unconfirmed_spent |-> fields[2],
     output_index |-> output_index]

ShieldedNote(value, fields, output_index, is_change) ==
    [value |-> value, spent |-> fields[1], unconfirmed_spent |-> fields[2],
     output_index |-> output_index, is_change |-> is_change]

\* The vectors of the records queried: none, one note, and one note of each
\* spend status with indexes set as TransactionRecordBuilder::set_output_indexes
\* sets them; a shielded note may be change and may have no output index.
TransparentVectors ==
    {<<>>, <<TransparentOutput(1, UnspentFields, 0)>>,
     <<TransparentOutput(1, UnspentFields, 0), TransparentOutput(1, SpentFields, 1),
       TransparentOutput(1, PendingFields, 2)>>}

ShieldedVectors(v) ==
    {<<>>, <<ShieldedNote(v, UnspentFields, None, FALSE)>>,
     <<ShieldedNote(v, UnspentFields, <<0>>, TRUE)>>,
     <<ShieldedNote(v, UnspentFields, <<0>>, FALSE), ShieldedNote(v, SpentFields, <<1>>, FALSE),
       ShieldedNote(v, PendingFields, <<2>>, TRUE)>>}

SpentTotals == {0, 3}
OutgoingValues == {<<>>, <<2>>, <<2, 3>>}

\* OutputQuery::stipulations(unspent, pending_spent, spent, transparent, sapling, orchard).
Queries ==
    [unspent : BOOLEAN, pending_spent : BOOLEAN, spent : BOOLEAN,
     transparent : BOOLEAN, sapling : BOOLEAN, orchard : BOOLEAN]

\* ConfirmationStatus: Broadcast(height) or Confirmed(height).
ConfirmationStatus(confirmed, height) == [confirmed |-> confirmed, height |-> height]
Statuses == {ConfirmationStatus(TRUE, 3), ConfirmationStatus(FALSE, 3)}

\* add_spent_nullifier: a pool's nullifiers are pushed as its total grows.
SpentNullifiers(pool, total) == IF total > 0 THEN <<<<"nullifier", pool>>>> ELSE <<>>

InitRecord ==
    /\ \E t \in TransparentVectors, sn \in ShieldedVectors(2), o \in ShieldedVectors(4),
          ts \in SpentTotals, ss \in SpentTotals, os \in SpentTotals, out \in OutgoingValues,
          st \in Statuses :
            record = [txid |-> 7, transparent_outputs |-> t, sapling_notes |-> sn,
                      orchard_notes |-> o, total_transparent_value_spent |-> ts,
                      total_sapling_value_spent |-> ss, total_orchard_value_spent |-> os,
                      outgoing_tx_data |-> out, status |-> st,
                      spent_sapling_nullifiers |-> SpentNullifiers(Sapling, ss),
                      spent_orchard_nullifiers |-> SpentNullifiers(Orchard, os)]
    /\ chan = NoChannels
    /\ notes = SendWallet(TRUE)
    /\ anchor_offset = <<1, 0>>
    /\ blocks = <<3, 2, 1>>
    /\ call = NoCall
    /\ keys = PlainKeys
    /\ verified_tree = TRUE
    /\ send_progress = SendProgressNew(0)
    /\ txs = {}
    /\ pc = [t \in Tasks |-> "idle"]
    /\ send = [t \in Tasks |-> NoLocals]
    /\ sends = 0
    /\ env = NoEnv
    /\ locks = FreeLocks
    /\ lt = [t \in Tasks |-> NoOperation]
    /\ birthday = 0
    /\ zkeys = <<>>
    /\ tkeys = <<>>
    /\ imports = [t \in Tasks |-> NoImport]
    /\ writer = <<>>
    /\ persist = NoPersist
    /\ loaded = None

\* OutputInterface::spend_status_query: the note's status is one the query asks for.
spend_status_query(n, q) ==
    \/ q.unspent /\ IsUnspent(n)
    \/ q.pending_spent /\ IsPendingSpent(n)
    \/ q.spent /\ IsConfirmedSpent(n)

\* OutputId::from_parts.
OutputId(txid, pool, index) == <<txid, pool, index>>

\* Iterator::filter over a vector: the elements that pass a test, in order.
Filtered(v, keep) ==
    LET ids == FilterIds(AllIds(v), {j \in 1..Len(v) : v[j] \in keep})
    IN  [j \in 1..Len(ids) |-> v[ids[j]]]

RECURSIVE SumOf(_)
SumOf(v) == IF v = <<>> THEN 0 ELSE v[1] + SumOf(Tail(v))

ValuesOf(v) == [j \in 1..Len(v) |-> v[j].value]

\* TransactionRecord::query_for_ids: the pool of every identifier is
\* PoolType::Transparent, and a shielded note without output index gets none.
query_for_ids(r, q) ==
    LET asked == {n \in Range(r.transparent_outputs) : spend_status_query(n, q)}
        indexed == {n \in Range(r.sapling_notes) \cup Range(r.orchard_notes) :
                       spend_status_query(n, q) /\ n.output_index # None}
        t == IF q.transparent THEN Filtered(r.transparent_outputs, asked) ELSE <<>>
        sn == IF q.sapling THEN Filtered(r.sapling_notes, indexed) ELSE <<>>
        o == IF q.orchard THEN Filtered(r.orchard_notes, indexed) ELSE <<>>
    IN  [j \in 1..Len(t) |-> OutputId(r.txid, Transparent, t[j].output_index)]
        \o [j \in 1..Len(sn) |-> OutputId(r.txid, Transparent, sn[j].output_index[1])]
        \o [j \in 1..Len(o) |-> OutputId(r.txid, Transparent, o[j].output_index[1])]

\* TransactionRecord::query_sum_value.
query_sum_value(r, q) ==
    LET asked == {n \in Range(r.transparent_outputs) \cup Range(r.sapling_notes)
                          \cup Range(r.orchard_notes) : spend_status_query(n, q)}
    IN  (IF q.transparent THEN SumOf(ValuesOf(Filtered(r.transparent_outputs, asked))) ELSE 0)
        + (IF q.sapling THEN SumOf(ValuesOf(Filtered(r.sapling_notes, asked))) ELSE 0)
        + (IF q.orchard THEN SumOf(ValuesOf(Filtered(r.orchard_notes, asked))) ELSE 0)

\* TransactionRecord::value_spent_by_pool, total_value_spent, value_outgoing.
value_spent_by_pool(r) ==
    <<r.total_transparent_value_spent, r.total_sapling_value_spent, r.total_orchard_value_spent>>
total_value_spent(r) == SumOf(value_spent_by_pool(r))
value_outgoing(r) == SumOf(r.outgoing_tx_data)

\* DomainWalletExt::sum_pool_change: the value of the notes that are change.
pool_change_returned(v) ==
    SumOf(ValuesOf(Filtered(v, {n \in Range(v) : n.is_change})))

\* TransactionRecord::total_change_returned.
total_change_returned(r) ==
    pool_change_returned(r.sapling_notes) + pool_change_returned(r.orchard_notes)

Ok(x) == <<"Ok", x>>
Err(e) == <<"Err", e>>

\* Mutant: the difference is taken without the comparison.
get_transaction_fee_unchecked(r) ==
    Ok(total_value_spent(r) - (value_outgoing(r) + total_change_returned(r)))

\* TransactionRecord::get_transaction_fee.
get_transaction_fee(r) ==
    LET outputted == value_outgoing(r) + total_change_returned(r)
    IN  IF total_value_spent(r) >= outputted THEN Ok(total_value_spent(r) - outputted)
        ELSE Err("MetadataUnderflow")

GetTransactionFee ==
    /\ call.op = "none"
    /\ call' = [op |-> "get_transaction_fee", result |-> get_transaction_fee(record)]
    /\ UNCHANGED <<walletVars, sendVars, lockVars, keyVars, persistVars, record, chan>>

QueryForIds(q) ==
    /\ call.op = "none"
    /\ call' = [op |-> "query_for_ids", query |-> q, result |-> query_for_ids(record, q)]
    /\ UNCHANGED <<walletVars, sendVars, lockVars, keyVars, persistVars, record, chan>>

QuerySumValue(q) ==
    /\ call.op = "none"
    /\ call' = [op |-> "query_sum_value", query |-> q, result |-> query_sum_value(record, q)]
    /\ UNCHANGED <<walletVars, sendVars, lockVars, keyVars, persistVars, record, chan>>

\* TransactionRecord::serialized_version.
TransactionRecord_serialized_version == 23

\* ConfirmationStatus::from_blockheight_and_unconfirmed_bool.
from_blockheight_and_unconfirmed_bool(block, unconfirmed) == ConfirmationStatus(~unconfirmed, block)

\* TransactionRecord::write: the fields in the order they are emitted. The
\* record of the model has no datetime and no price; 0 and None are written.
\* The notes and outputs are written by their own write, element by element.
TransactionRecord_write(r) ==
    <<TransactionRecord_serialized_version, r.status.height,
      IF ~r.status.confirmed THEN 1 ELSE 0, 0, r.txid,
      Vector_write(r.sapling_notes), Vector_write(r.orchard_notes),
      Vector_write(r.transparent_outputs)>>
    \o value_spent_by_pool(r)
    \o <<Vector_write(r.outgoing_tx_data), 0, None,
          Vector_write(r.spent_sapling_nullifiers), Vector_write(r.spent_orchard_nullifiers)>>

\* TransactionRecord::read of the fields of a version above 22, in the order
\* read consumes them.
TransactionRecord_read(f) ==
    LET version == f[1]
        block == f[2]
        unconfirmed == IF version <= 20 THEN FALSE ELSE f[3] = 1
        transaction_id == f[5]
        sapling_notes == Vector_read(f[6])
        orchard_notes == IF version > 22 THEN Vector_read(f[7]) ELSE <<>>
        utxos == Vector_read(f[8])
        total_sapling_value_spent == f[9]
        total_transparent_value_spent == f[10]
        total_orchard_value_spent == IF version >= 22 THEN f[11] ELSE 0
        outgoing_metadata == Vector_read(f[12])
        spent_sapling_nullifiers == IF version <= 5 THEN <<>> ELSE Vector_read(f[15])
        spent_orchard_nullifiers == IF version <= 21 THEN <<>> ELSE Vector_read(f[16])
    IN  [txid |-> transaction_id, transparent_outputs |-> utxos, sapling_notes |-> sapling_notes,
         orchard_notes |-> orchard_notes,
         total_transparent_value_spent |-> total_transparent_value_spent,
         total_sapling_value_spent |-> total_sapling_value_spent,
         total_orchard_value_spent |-> total_orchard_value_spent,
         outgoing_tx_data |-> outgoing_metadata,
         status |-> from_blockheight_and_unconfirmed_bool(block, unconfirmed),
         spent_sapling_nullifiers |-> spent_sapling_nullifiers,
         spent_orchard_nullifiers |-> spent_orchard_nullifiers]

\* The record is written and what was written is read.
WriteThenRead ==
    /\ call.op = "none"
    /\ call' = [op |-> "write_read", result |-> TransactionRecord_read(TransactionRecord_write(record))]
    /\ UNCHANGED <<walletVars, sendVars, lockVars, keyVars, persistVars, record, chan>>

NextRecord ==
    \/ GetTransactionFee
    \/ \E q \in Queries : QueryForIds(q)
    \/ \E q \in Queries : QuerySumValue(q)
    \/ WriteThenRead

SpecRecord == InitRecord /\ [][NextRecord]_vars

(***************************************************************************)
(* Properties of SpecRecord.                                               *)
(***************************************************************************)
\* The notes of a record with their pools, and those a query asks for.
NotesOfRecord(r) ==
    [j \in 1..Len(r.transparent_outputs) |-> <<Transparent, r.transparent_outputs[j]>>]
    \o [j \in 1..Len(r.sapling_notes) |-> <<Sapling, r.sapling_notes[j]>>]
    \o [j \in 1..Len(r.orchard_notes) |-> <<Orchard, r.orchard_notes[j]>>]

StatusOf(n) ==
    IF IsConfirmedSpent(n) THEN "spent" ELSE IF IsPendingSpent(n) THEN "pending_spent" ELSE "unspent"

Asked(r, q) ==
    LET ns == NotesOfRecord(r)
    IN  {j \in 1..Len(ns) :
            /\ \/ ns[j][1] = Transparent /\ q.transparent
               \/ ns[j][1] = Sapling /\ q.sapling
               \/ ns[j][1] = Orchard /\ q.orchard
            /\ \/ StatusOf(ns[j][2]) = "unspent" /\ q.unspent
               \/ StatusOf(ns[j][2]) = "pending_spent" /\ q.pending_spent
               \/ StatusOf(ns[j][2]) = "spent" /\ q.spent}

RECURSIVE SumOver(_, _)
SumOver(ns, js) ==
    IF js = {} THEN 0
    ELSE LET j == CHOOSE x \in js : TRUE IN ns[j][2].value + SumOver(ns, js \ {j})

\* The value spent less the value sent and the change, which may be negative.
FeeDifference(r) ==
    (r.total_transparent_value_spent + r.total_sapling_value_spent + r.total_orchard_value_spent)
        - SumOf(r.outgoing_tx_data)
        - SumOver(NotesOfRecord(r), {j \in 1..Len(NotesOfRecord(r)) :
                     NotesOfRecord(r)[j][1] # Transparent /\ NotesOfRecord(r)[j][2].is_change})

\* C22: get_transaction_fee returns the value spent less the value sent and the
\* change returned when that is not negative, the metadata-underflow error
\* otherwise, and 0 for a record with no notes and no sends.
C22_FeeIsDifferenceOrUnderflowError ==
    call.op = "get_transaction_fee" =>
        /\ FeeDifference(record) >= 0 => call.result = Ok(FeeDifference(record))
        /\ FeeDifference(record) < 0 => call.result = Err("MetadataUnderflow")
        /\ call.result[1] = "Ok" => call.result[2] >= 0
        /\ record = [NoRecord EXCEPT !.txid = record.txid, !.status = record.status]
           => call.result = Ok(0)

C22_Witness ==
    /\ call.op = "get_transaction_fee" /\ call.result = Err("MetadataUnderflow")
    /\ total_value_spent(record) > 0 /\ record.outgoing_tx_data # <<>>
    /\ total_change_returned(record) > 0

\* C23: query_for_ids returns one identifier for every note of the record
\* whose status and pool the query asks for, and query_sum_value returns the
\* sum of the values of those notes.
C23_QueriesCoverExactlyTheNotesAsked ==
    /\ call.op = "query_for_ids" => Len(call.result) = Cardinality(Asked(record, call.query))
    /\ call.op = "query_sum_value"
          => call.result = SumOver(NotesOfRecord(record), Asked(record, call.query))

(***************************************************************************)
(* SpecPool: select_notes_and_utxos over wallets with two notes in one     *)
(* shielded pool, one in the other and one transparent output, the         *)
(* transaction map iterated in the stored or in the reverse order.         *)
(***************************************************************************)
\* A shielded note received age blocks below the target height of the window
\* 3, 2, 1 has one witness per block since.
AgedNote(pool, value, have_sk, age, fields) == Note(pool, value, have_sk, age, 4 - age, fields)

\* The notes of the pool that holds two: unspent with its key, worth nothing,
\* little or more, one, two or three blocks deep; or two deep and without key,
\* pending or spent.
TwinNoteStates(pool) ==
    {AgedNote(pool, v, TRUE, a, UnspentFields) : v \in {0, 1, 2}, a \in {1, 2, 3}}
    \cup {AgedNote(pool, 2, FALSE, 2, UnspentFields)}
    \cup {AgedNote(pool, 2, TRUE, 2, f) : f \in {PendingFields, SpentFields}}

LoneNoteStates(pool) ==
    {AgedNote(pool, v, TRUE, 2, UnspentFields) : v \in {0, 1, 2}}
    \cup {AgedNote(pool, 2, TRUE, 2, PendingFields)}

PoolUtxoStates == {Note(Transparent, 1, TRUE, 0, 2, f) : f \in {UnspentFields, PendingFields, SpentFields}}

OtherPool(pool) == IF pool = Sapling THEN Orchard ELSE Sapling

InitPool ==
    /\ \E twin \in {Sapling, Orchard} :
          \E u \in PoolUtxoStates, x \in TwinNoteStates(twin), y \in TwinNoteStates(twin),
             z \in LoneNoteStates(OtherPool(twin)) :
                notes = <<u, x, y, z>>
    /\ anchor_offset \in AnchorOffsets
    /\ blocks = <<3, 2, 1>>
    /\ call = NoCall
    /\ IdleInit

\* The order in which HashMap::iter yields the records: as stored, or reversed.
Orders == {"stored", "reversed"}
IterationOrder(ns, order) == IF order = "stored" THEN AllIds(ns) ELSE Reverse(AllIds(ns))

\* A selection made on the records as iterated, named by the stored ids.
Renamed(sp, p) == [j \in 1..Len(sp) |-> [sp[j] EXCEPT !.id = p[sp[j].id]]]

select_notes_and_utxos_iterating(ns, p, ao, target_amount, transparent_only, shield_transparent, prefer_orchard_over_sapling) ==
    LET r == select_notes_and_utxos([j \in 1..Len(ns) |-> ns[p[j]]], ao, target_amount,
                                    transparent_only, shield_transparent,
                                    prefer_orchard_over_sapling)
    IN  Selection(Renamed(r.orchard_notes, p), Renamed(r.sapling_notes, p),
                  [j \in 1..Len(r.utxos) |-> p[r.utxos[j]]], r.value)

\* select_notes_and_utxos with the map iterated in the given order.
SelectIterating(order, target, transparent_only, shield_transparent, prefer) ==
    /\ call.op = "none"
    /\ call' = [op |-> "select_iterating", order |-> order, target |-> target,
                transparent_only |-> transparent_only,
                shield_transparent |-> shield_transparent, prefer |-> prefer,
                result |-> select_notes_and_utxos_iterating(notes, IterationOrder(notes, order),
                               anchor_offset, target, transparent_only, shield_transparent, prefer)]
    /\ UNCHANGED <<walletVars, sendVars, lockVars, keyVars, persistVars, record, chan>>

NextPool ==
    \/ \E target \in 0..MaxTarget, transparent_only \in BOOLEAN,
          shield_transparent \in BOOLEAN, prefer \in BOOLEAN :
            Select(target, transparent_only, shield_transparent, prefer)
    \/ \E order \in Orders, target \in 0..MaxTarget, transparent_only \in BOOLEAN,
          shield_transparent \in BOOLEAN, prefer \in BOOLEAN :
            SelectIterating(order, target, transparent_only, shield_transparent, prefer)

SpecPool == InitPool /\ [][NextPool]_vars

(***************************************************************************)
(* Properties of select_notes_and_utxos over the two-note pools (SpecPool).*)
(***************************************************************************)
ReturnedOf(pool) == IF pool = Sapling THEN call.result.sapling_notes ELSE call.result.orchard_notes

\* The pool the code asks first: poolB (Sapling) when the flag is set.
FirstPool == IF call.prefer THEN Sapling ELSE Orchard

CallTransparentValue == SumValues(notes, call.result.utxos)

\* The target that remains for a pool: T minus the transparent value minus the
\* value selected from the earlier pool.
RemainingTarget(pool) ==
    call.target - CallTransparentValue
    - (IF pool = FirstPool THEN 0 ELSE SumValues(notes, SpendableIds(ReturnedOf(FirstPool))))

\* The candidates of a pool at the tier of offset k.
TierCandidates(ns, pool, k) ==
    {i \in 1..Len(ns) : /\ ns[i].present /\ ns[i].pool = pool /\ ns[i].value > 0
                        /\ IsUnspent(ns[i]) /\ ns[i].have_sk /\ ns[i].witnesses > k}

\* Ascending by value, equal values in insertion order.
Before(ns, i, j) == ns[i].value < ns[j].value \/ (ns[i].value = ns[j].value /\ i < j)

AscendingPrefix(ns, sel, cands) ==
    /\ Range(sel) \subseteq cands
    /\ \A a \in 1..Len(sel), b \in 1..Len(sel) : a < b => Before(ns, sel[a], sel[b])
    /\ \A a \in 1..Len(sel), c \in cands \ Range(sel) : Before(ns, sel[a], c)

\* C27: within one shielded pool and tier the selected notes are a prefix of
\* the candidates sorted ascending by value, equal values in insertion order,
\* and the prefix is minimal for the remaining target (T minus the transparent
\* value minus the value selected from the earlier pool): without its last
\* note it sums to less than that target; for both pool orders.
C27_PrefixMinimalForRemainingTarget ==
    Selected =>
        \A pool \in {Sapling, Orchard} :
            LET sel == SpendableIds(ReturnedOf(pool))
            IN  sel # <<>> =>
                    /\ AscendingPrefix(notes, sel,
                                       TierCandidates(notes, pool, ReturnedOf(pool)[1].anchor_offset))
                    /\ SumValues(notes, SubSeq(sel, 1, Len(sel) - 1)) < RemainingTarget(pool)

\* The value a pool can give at its loosest tier.
PoolEligibleValue(pool) == ValueOf(notes, TierCandidates(notes, pool, LeastOffset(anchor_offset)))

\* C28: the shielded pools are consumed in the preference order: with the flag
\* set poolB (Sapling) is selected first and poolA (Orchard) notes are returned
\* only if poolB fell short of the remaining target; with the flag unset poolA
\* is first and poolB notes are returned only if poolA fell short; evaluation
\* stops at the first pool at which the running total reaches T.
C28_PoolsInPreferenceOrder ==
    Selected =>
        LET later == OtherPool(FirstPool)
        IN  /\ ReturnedOf(later) # <<>> => PoolEligibleValue(FirstPool) < RemainingTarget(FirstPool)
            /\ (/\ ~IsEmptySelection(call.result)
                /\ ~call.transparent_only
                /\ CallTransparentValue < call.target
                /\ PoolEligibleValue(FirstPool) >= RemainingTarget(FirstPool))
               => /\ ReturnedOf(later) = <<>>
                  /\ ReturnedOf(FirstPool) # <<>>
                  /\ call.result.value = CallTransparentValue
                         + SumValues(notes, SpendableIds(ReturnedOf(FirstPool)))

\* poolB fell short with the flag set, and poolA made up the rest.
C28_Witness ==
    /\ Selected /\ call.prefer
    /\ call.result.sapling_notes # <<>>
    /\ call.result.orchard_notes # <<>>

\* The tiers at which the candidates of a pool reach a target, in the
\* configured order.
ReachingTiers(pool, target) ==
    {t \in 1..Len(anchor_offset) :
        ValueOf(notes, TierCandidates(notes, pool, anchor_offset[t])) >= target}

FirstTier(tiers) == CHOOSE t \in tiers : \A u \in tiers : t <= u

\* C24: selection walks the anchor-offset tiers in their configured order and
\* returns the notes of the first tier at which the candidates of the pool
\* reach the remaining target; each returned note carries the witness retained
\* at that tier's depth, and a note with fewer confirmations than every
\* configured tier requires is never returned.
C24_FirstReachingTierAtItsDepth ==
    Selected =>
        \A pool \in {Sapling, Orchard} :
            LET sel == ReturnedOf(pool)
                reaching == ReachingTiers(pool, RemainingTarget(pool))
            IN  /\ \A j \in 1..Len(sel) :
                       /\ sel[j].anchor_offset \in Range(anchor_offset)
                       /\ notes[sel[j].id].witnesses >= sel[j].anchor_offset + 1
                       /\ notes[sel[j].id].witnesses > LeastOffset(anchor_offset)
                /\ (sel # <<>> /\ reaching # {}) =>
                       \A j \in 1..Len(sel) :
                           /\ sel[j].anchor_offset = anchor_offset[FirstTier(reaching)]
                           /\ sel[j].id \in TierCandidates(notes, pool,
                                                anchor_offset[FirstTier(reaching)])

\* The first candidate of a tier in ascending order of value.
LeastValued(ns, cands) == CHOOSE m \in cands : \A c \in cands \ {m} : Before(ns, m, c)

\* The eligible notes of a pool that cover its remaining target on their own.
Covering(pool) ==
    {i \in TierCandidates(notes, pool, LeastOffset(anchor_offset)) :
        notes[i].value >= RemainingTarget(pool)}

SelectedIterating == call.op = "select_iterating"

\* The sets of inputs of a selection.
InputSets(r) == <<Range(r.orchard_notes), Range(r.sapling_notes), Range(r.utxos)>>

\* C29: selection is deterministic: two runs of select_notes_and_utxos on the
\* same wallet state, target and flags return the same sets of notes and
\* outputs, also when several candidates have equal value and whatever order
\* the transaction map is iterated in.
C29_SameSelectionWhateverIterationOrder ==
    SelectedIterating =>
        InputSets(call.result) =
            InputSets(select_notes_and_utxos_iterating(notes, IterationOrder(notes, "stored"),
                          anchor_offset, call.target, call.transparent_only,
                          call.shield_transparent, call.prefer))

\* The inputs a selection returns: shielded notes and transparent outputs.
ReturnedShielded == Range(SpendableIds(call.result.sapling_notes))
                    \cup Range(SpendableIds(call.result.orchard_notes))

UnspentUtxos == {i \in 1..Len(notes) : /\ notes[i].present /\ notes[i].pool = Transparent
                                       /\ IsUnspent(notes[i])}

\* No returned input is PendingSpent or ConfirmedSpent, no returned shielded
\* note is worth nothing or lacks its spending key, and transparent outputs
\* come back only under one of the two flags.
ReturnedInputsAreSpendable ==
    /\ \A i \in ReturnedShielded \cup Range(call.result.utxos) : IsUnspent(notes[i])
    /\ \A i \in ReturnedShielded : notes[i].value > 0 /\ notes[i].have_sk
    /\ call.result.utxos # <<>> => (call.transparent_only \/ call.shield_transparent)

\* C30 (as stated): no returned input is PendingSpent or ConfirmedSpent, no
\* returned shielded note has zero value or lacks a held spending key, and
\* transparent outputs are returned only when transparent-only or
\* allow-transparent is set, in which case all unspent, non-pending
\* transparent outputs are returned.
C30_SpendableInputsAndAllUtxosUnderFlags ==
    Selected =>
        /\ ReturnedInputsAreSpendable
        /\ (call.transparent_only \/ call.shield_transparent)
               => Range(call.result.utxos) = UnspentUtxos

\* C30 (amended): as stated, except that under allow-transparent alone a
\* selection that falls short of the target returns nothing at all, the
\* transparent outputs included; under the flags every other selection returns
\* all unspent, non-pending transparent outputs.
C30_SpendableInputsAndAllUtxosUnlessShort ==
    Selected =>
        /\ ReturnedInputsAreSpendable
        /\ (call.transparent_only \/ call.shield_transparent)
               => \/ Range(call.result.utxos) = UnspentUtxos
                  \/ /\ ~call.transparent_only
                     /\ IsEmptySelection(call.result)
                     /\ CallEligibleValue < call.target

\* Transparent outputs and a poolB note come back from a wallet that also
\* holds a poolB note the selection must leave out.
C30_Witness ==
    /\ Selected /\ call.shield_transparent
    /\ call.result.utxos # <<>>
    /\ call.result.sapling_notes # <<>>
    /\ \E i \in 1..Len(notes) :
          /\ notes[i].pool = Sapling
          /\ i \notin ReturnedShielded
          /\ notes[i].value = 0 \/ ~IsUnspent(notes[i]) \/ ~notes[i].have_sk

(***************************************************************************)
(* Properties of two overlapping sends (Spec).                             *)
(***************************************************************************)
\* The steps of a send at which its transaction is built and its locals live.
HasBuilt(t) == pc[t] \in {"built", "broadcast", "marked", "ok"}

\* C26: two concurrent sends never consume the same input: in every
\* interleaving of two send_to_address calls on one wallet the notes and
\* transparent outputs used as inputs of the two built transactions, and
\* marked PendingSpent by them, are disjoint.
C26_ConcurrentSendsUseDisjointInputs ==
    \A t \in Tasks, u \in Tasks :
        (t # u /\ HasBuilt(t) /\ HasBuilt(u))
            => SelectedIds(send[t].selected) \cap SelectedIds(send[u].selected) = {}

(***************************************************************************)
(* The selected value (SpecPool).                                          *)
(***************************************************************************)
\* The values of the inputs a selection returns, summed one by one.
ReturnedValue(r) ==
    SumOf([j \in 1..Len(r.orchard_notes) |-> notes[r.orchard_notes[j].id].value])
    + SumOf([j \in 1..Len(r.sapling_notes) |-> notes[r.sapling_notes[j].id].value])
    + SumOf([j \in 1..Len(r.utxos) |-> notes[r.utxos[j]].value])

\* C31: the selected value returned by select_notes_and_utxos equals the sum
\* of the values of the returned orchard notes, sapling notes and transparent
\* outputs, on every return path and for both pool orders.
C31_SelectedValueIsSumOfReturned ==
    (Selected \/ SelectedIterating) => call.result.value = ReturnedValue(call.result)

\* Inputs of all three kinds come back, poolB asked first.
C31_Witness ==
    /\ Selected /\ call.prefer
    /\ call.result.orchard_notes # <<>>
    /\ call.result.sapling_notes # <<>>
    /\ call.result.utxos # <<>>
    /\ call.result.value = ReturnedValue(call.result)

(***************************************************************************)
(* The anchor of a send (Spec).                                            *)
(***************************************************************************)
NoTreeError(t) == pc[t] = "error" /\ send[t].err = "no verified tree"

ShieldedSelected(sel) == Range(SpendableIds(sel.sapling_notes)) \cup Range(SpendableIds(sel.orchard_notes))

\* C32 (as stated): a send takes its anchor from the witness root of a
\* selected shielded note of either pool, otherwise from the last
\* verified-tree snapshot; it fails with "No last known verified tree" only
\* when no shielded note was selected and no snapshot exists, and then marks
\* no note.
C32_AnchorFromShieldedNoteOrSnapshot ==
    \A t \in Tasks :
        /\ NoTreeError(t) => /\ ShieldedSelected(send[t].selected) = {}
                             /\ ~verified_tree
                             /\ (\A i \in NoteIds : ~MarkedBy(t, i))
        /\ send[t].anchor # None =>
              IF ShieldedSelected(send[t].selected) # {}
              THEN /\ send[t].anchor[1].from = "witness"
                   /\ send[t].anchor[1].note \in ShieldedSelected(send[t].selected)
              ELSE send[t].anchor[1].from = "verified_tree" /\ verified_tree

\* C32 (amended): a send takes its anchor from the witness root of the first
\* selected orchard note, otherwise from the last verified-tree snapshot,
\* whether or not sapling notes were selected; it fails with "No last known
\* verified tree" exactly when no orchard note was selected and no snapshot
\* exists, and then marks no note.
C32_AnchorFromOrchardNoteOrSnapshot ==
    \A t \in Tasks :
        /\ NoTreeError(t) => /\ send[t].selected.orchard_notes = <<>>
                             /\ ~verified_tree
                             /\ send[t].anchor = None
                             /\ (\A i \in NoteIds : ~MarkedBy(t, i))
        /\ (pc[t] \in {"prepared", "building", "built", "broadcast", "marked", "ok"}
            \/ send[t].anchor # None)
              => /\ send[t].anchor # None
                 /\ IF send[t].selected.orchard_notes # <<>>
                    THEN /\ send[t].anchor[1].from = "witness"
                         /\ send[t].anchor[1].note = send[t].selected.orchard_notes[1].id
                    ELSE send[t].anchor[1].from = "verified_tree" /\ verified_tree

\* A send that selected a sapling note and no orchard note fails for want of a
\* snapshot, with nothing marked.
C32_Witness ==
    \E t \in Tasks :
        /\ NoTreeError(t)
        /\ send[t].selected.sapling_notes # <<>>
        /\ send[t].selected.orchard_notes = <<>>
        /\ (\A i \in NoteIds : ~MarkedBy(t, i))

(***************************************************************************)
(* SpecProgress: two sends one after the other, each with the progress     *)
(* channel of its build: the builder sends ticks on the channel, a spawned *)
(* task applies them to the shared progress record and clears the          *)
(* in-progress flag once the channel is closed. A build error returns      *)
(* without waiting for that task.                                          *)
(***************************************************************************)
MaxTicks == 2

InitProgress ==
    /\ notes = SendWallet(TRUE)
    /\ anchor_offset = <<1, 0>>
    /\ blocks = <<3, 2, 1>>
    /\ call = NoCall
    /\ IdleInit

\* send_to_address: reset_send_progress, by a caller whose earlier send has returned.
ProgressStart(t) ==
    /\ \A u \in Tasks : u < t => pc[u] = "returned"
    /\ SendStart(t)

\* send_to_address_internal: the channel, the spawned consumer and the arming
\* of the progress record before the build.
ProgressArm(t, total) ==
    /\ pc[t] = "reset"
    /\ chan' = [chan EXCEPT ![t] = [queue |-> <<>>, open |-> TRUE, consumer |-> "running",
                                    id |-> send_progress.id, sent |-> 0]]
    /\ send_progress' = [send_progress EXCEPT !.is_send_in_progress = TRUE,
                                              !.progress = 0,
                                              !.total = total]
    /\ Goto(t, "building")
    /\ UNCHANGED <<walletVars, call, lockVars, txs, send, sends, env, keyVars, persistVars, record>>

\* builder.build: the progress notifier sends the count of the steps done.
BuilderTick(t) ==
    /\ pc[t] = "building"
    /\ chan[t].sent < send_progress.total
    /\ chan' = [chan EXCEPT ![t].queue = Append(@, chan[t].sent + 1),
                            ![t].sent = @ + 1]
    /\ UNCHANGED <<walletVars, call, lockVars, sendVars, keyVars, persistVars, record>>

\* builder.build returns and the transmitter is dropped with the builder: on
\* an error the flag is cleared and the error returned at once; otherwise the
\* send waits for the consumer.
BuildReturns(t, built) ==
    /\ pc[t] = "building"
    /\ chan' = [chan EXCEPT ![t].open = FALSE]
    /\ IF built
       THEN Goto(t, "awaiting") /\ UNCHANGED <<send, send_progress>>
       ELSE /\ send_progress' = [send_progress EXCEPT !.is_send_in_progress = FALSE]
            /\ Fail(t, "build")
    /\ UNCHANGED <<walletVars, call, lockVars, txs, sends, env, keyVars, persistVars, record>>

\* The spawned task: progress.write().await.progress = r, for each tick received.
ConsumerTick(t) ==
    /\ chan[t].consumer = "running"
    /\ chan[t].queue # <<>>
    /\ send_progress' = [send_progress EXCEPT !.progress = Head(chan[t].queue)]
    /\ chan' = [chan EXCEPT ![t].queue = Tail(@)]
    /\ UNCHANGED <<walletVars, call, lockVars, txs, pc, send, sends, env, keyVars, persistVars, record>>

\* The spawned task: the channel is closed and drained, the flag is cleared.
ConsumerClose(t) ==
    /\ chan[t].consumer = "running"
    /\ chan[t].queue = <<>>
    /\ ~chan[t].open
    /\ send_progress' = [send_progress EXCEPT !.is_send_in_progress = FALSE]
    /\ chan' = [chan EXCEPT ![t].consumer = "done"]
    /\ UNCHANGED <<walletVars, call, lockVars, txs, pc, send, sends, env, keyVars, persistVars, record>>

\* progress_handle.await, then the flag is cleared once more; the broadcast
\* and the marking follow.
AwaitConsumer(t) ==
    /\ pc[t] = "awaiting"
    /\ chan[t].consumer = "done"
    /\ send_progress' = [send_progress EXCEPT !.is_send_in_progress = FALSE]
    /\ Goto(t, "ok")
    /\ UNCHANGED <<walletVars, call, lockVars, txs, send, sends, env, keyVars, persistVars, record, chan>>

NextProgress ==
    \/ \E t \in Tasks : ProgressStart(t)
    \/ \E t \in Tasks, total \in 1..MaxTicks : ProgressArm(t, total)
    \/ \E t \in Tasks : BuilderTick(t)
    \/ \E t \in Tasks, built \in BOOLEAN : BuildReturns(t, built)
    \/ \E t \in Tasks : ConsumerTick(t)
    \/ \E t \in Tasks : ConsumerClose(t)
    \/ \E t \in Tasks : AwaitConsumer(t)
    \/ \E t \in Tasks : SendFinish(t)

SpecProgress == InitProgress /\ [][NextProgress]_vars

\* The consumer of an earlier send that returned with a build error takes a
\* step while the record belongs to a later send.
StaleConsumerStep(t) ==
    /\ pc[t] = "returned"
    /\ chan'[t] # chan[t]
    /\ send_progress.id > chan[t].id

\* C33: once a send has returned with a build error and a later send has reset
\* the progress record, no progress tick and no in-progress = false write of
\* the earlier send's channel consumers is applied to the later send's record:
\* its progress and in-progress fields reflect only the later send.
C33_StaleConsumersLeaveLaterRecord ==
    [][\A t \in Tasks : StaleConsumerStep(t) => send_progress' = send_progress]_vars

(***************************************************************************)
(* The marking step beside clear_all (Spec).                               *)
(***************************************************************************)
\* C34: in every interleaving of a send with clear_all the marking step of the
\* send finds each selected note and output in the record store: the send
\* never reaches a state in which the record or note of a selected input is
\* missing when it is to be marked.
C34_MarkingFindsEverySelectedInput ==
    \A t \in Tasks :
        /\ pc[t] = "broadcast" => \A i \in SelectedIds(send[t].selected) : notes[i].present
        /\ pc[t] # "panicked"

(***************************************************************************)
(* More properties of SpecRecord.                                          *)
(***************************************************************************)
\* C38: TransactionRecord::read(TransactionRecord::write(r)) reproduces r's
\* transparent, sapling and orchard spent totals each in its own field,
\* together with its txid, confirmation status and height, received notes
\* and spent nullifiers.
C38_ReadOfWriteReproducesRecord ==
    call.op = "write_read" => call.result = record

\* The identifier that names the pool and the output index of a note of
\* NotesOfRecord, and the notes a query asks for that have an output index.
IdOfNote(r, pn) ==
    OutputId(r.txid, pn[1],
             IF pn[1] = Transparent THEN pn[2].output_index ELSE pn[2].output_index[1])

Identified(r, q) ==
    {j \in Asked(r, q) :
        NotesOfRecord(r)[j][1] = Transparent \/ NotesOfRecord(r)[j][2].output_index # None}

\* C39: the identifiers returned by query_for_ids for one record are pairwise
\* distinct for distinct notes, and each identifier names the pool and output
\* index of the note it stands for, so that a transparent output and a
\* shielded note with the same output index never receive the same identifier.
C39_IdsAreDistinctAndNameThePool ==
    call.op = "query_for_ids" =>
        LET ns == NotesOfRecord(record)
            js == FilterIds(AllIds(ns), Identified(record, call.query))
        IN  /\ Len(call.result) = Len(js)
            /\ \A k \in 1..Len(js) : call.result[k] = IdOfNote(record, ns[js[k]])
            /\ \A i, j \in 1..Len(call.result) : i # j => call.result[i] # call.result[j]

====
